---- MODULE Spec2Model ----
(***************************************************************************)
(* A model of the JT/T 808 codecs of the DC600 tools (tools/dc600):        *)
(* byte stuffing, XOR checksum, BCD, frame encoders and decoders of the    *)
(* several simulator scripts, the per-sender sequence counters, the        *)
(* receive loops, and the sessions of the clients: authentication, the     *)
(* threads of the device simulator, responses and the video upload.        *)
(*                                                                         *)
(* Bytes are integers 0..255, byte strings are sequences of bytes, digit   *)
(* strings are sequences of digits 0..9.  A Python exception is modelled   *)
(* as a result value (StructError), None as the value None.                *)
(***************************************************************************)
EXTENDS Integers, Sequences, FiniteSets, TLC

VARIABLES
    pc,             \* position of the codec session: "idle", "sent", "received", "stuffed"
    msg_sequence,   \* dc600_device_simulator.JT808Protocol.msg_sequence
    sequence_lock,  \* dc600_device_simulator.JT808Protocol.sequence_lock: its holder, or NoThread
    sequence,       \* dc600multimedia.DC600Message.sequence
    seq_num,        \* test_dc600_protocol.DC600Device.seq_num
    builder_sequence, \* alaramTest.JT808PacketBuilder.sequence
    sent,           \* the arguments of the last encoder call (a record), or None
    frame,          \* the bytes handed to the transport / given to the decoder, or StructError
    received,       \* the result of the last decoder call (a record), or None
    stuffer,        \* the last escape/unescape round trip (a record), or None
    tpc,            \* per thread of DC600Device: its position in send_message
    tseq,           \* per thread: the local variable seq of get_next_sequence
    ttmp,           \* per thread: the value msg_sequence + 1 being computed
    issued,         \* the sequence numbers handed out so far, in order, with the caller
    wire,           \* the frames passed to sendall, in order: their sequence numbers
    sender,         \* which sender the sequence scenario exercises
    bcd,            \* the last BCD encode/decode call (a record), or None
    alarm_extra,    \* the last alarm extension built (a record), or None
    alarm_id_counter, \* dc600_device_simulator.DC600Device._alarm_id_counter
    msg_seq,        \* dc600_simulator.DeviceConfig.msg_seq
    attach,         \* the last 0x9208 request handled and what was sent for it, or None
    rstream,        \* the bytes the peer has sent that recv() has not returned yet
    rbuffer,        \* the local variable buffer of the receive loop
    delivered,      \* the frames handed to the message handler (or returned), in order
    receiver,       \* the receive loop under study and whether it still runs, or None
    assembly,       \* sub-package assembly state of every multimedia id
    emitted,        \* the payload emitted for every multimedia id, or None
    arrivals,       \* the fragments received so far with their outcomes, in order
    reassembly_error, \* the error signalled for the last fragment, or None
    msg_serial,     \* DC600Protocol.msg_serial of dc600_terminal_test.py
    client,         \* which program's session is under study, or None
    running,        \* DC600Device.running
    connected,      \* DC600Device.connected
    authenticated,  \* the authenticated field of the client under study
    auth_code,      \* the auth_code field of the client under study (a byte string)
    outbox,         \* the messages the client has passed to sendall (a set of records)
    threads,        \* the live threads of DC600Device: how many of each kind
    run_pc,         \* position of DC600Device.run
    returned,       \* the outcome of the last call under study (a record), or None
    socket,         \* DC600Device.socket: "none", "unconnected", "open" or "closed"
    config          \* DC600Device.config: the settings the session depends on, or None

codecVars == <<pc, sent, frame, received, stuffer>>
counterVars == <<msg_sequence, sequence, seq_num, builder_sequence>>
threadVars == <<sequence_lock, tpc, tseq, ttmp, issued, wire, sender>>
bcdVars == <<bcd>>
alarmVars == <<alarm_extra, alarm_id_counter, msg_seq, attach>>
recvVars == <<rstream, rbuffer, delivered, receiver>>
reasmVars == <<assembly, emitted, arrivals, reassembly_error>>
terminalVars == <<msg_serial>>
sessionVars == <<client, running, connected, authenticated, auth_code, outbox, threads, run_pc, returned, socket, config>>
vars == <<codecVars, counterVars, threadVars, bcdVars, alarmVars, recvVars, reasmVars, terminalVars, sessionVars>>

None == [kind |-> "None"]
StructError == [kind |-> "struct.error"]

(***************************************************************************)
(* Python helpers: integer bit operations, slices, struct.pack/unpack.     *)
(***************************************************************************)
RECURSIVE BitAnd(_, _)
BitAnd(a, b) ==
    IF a = 0 \/ b = 0 THEN 0
    ELSE ((a % 2) * (b % 2)) + 2 * BitAnd(a \div 2, b \div 2)

RECURSIVE BitXor(_, _)
BitXor(a, b) ==
    IF a = 0 THEN b
    ELSE IF b = 0 THEN a
    ELSE (((a % 2) + (b % 2)) % 2) + 2 * BitXor(a \div 2, b \div 2)

RECURSIVE BitOr(_, _)
BitOr(a, b) ==
    IF a = 0 THEN b
    ELSE IF b = 0 THEN a
    ELSE (IF (a % 2) + (b % 2) > 0 THEN 1 ELSE 0) + 2 * BitOr(a \div 2, b \div 2)

Min(a, b) == IF a < b THEN a ELSE b

\* data[a:b] of Python, 0 <= a <= b: indices are clamped to the length.
Slice(data, a, b) ==
    IF a >= Min(b, Len(data)) THEN <<>> ELSE SubSeq(data, a + 1, Min(b, Len(data)))

\* struct.pack('>H', v) raises struct.error outside 0..65535.
CanPackH(v) == v >= 0 /\ v <= 65535

\* struct.pack('>H', v), for a value it accepts.
PackH(v) == <<v \div 256, v % 256>>

\* struct.pack('>I', v), for a value 0 <= v < 2^31.
PackI(v) == <<v \div 16777216, (v \div 65536) % 256, (v \div 256) % 256, v % 256>>

\* struct.unpack('>H', b) raises struct.error unless b has exactly 2 bytes.
CanUnpackH(b) == Len(b) = 2

\* struct.unpack('>H', b)[0], for 2 bytes.
UnpackH(b) == b[1] * 256 + b[2]

(***************************************************************************)
(* dc600_device_simulator.py: class JT808Protocol                          *)
(***************************************************************************)
FRAME_DELIMITER == 126
ESCAPE_CHAR == 125
SEQ_MODULUS == 65536
BODY_LEN_MASK == 1023
SUBPACKAGE_FLAG == 8192

\* The loops over a byte string are modelled as the loop's state [i, ...] (i the
\* 1-based index of the next byte) and one operator per iteration; a loop over
\* data[lo..hi] runs its first half, then its second half on the state reached.

\* A checksum loop that adds the bytes modulo 256 instead of XOR-ing them.
ChecksumStepSum(data, st) == [i |-> st.i + 1, checksum |-> (st.checksum + data[st.i]) % 256]

\* for byte in data: checksum ^= byte
ChecksumStep(data, st) == [i |-> st.i + 1, checksum |-> BitXor(st.checksum, data[st.i])]

RECURSIVE ChecksumLoop(_, _, _, _)
ChecksumLoop(data, lo, hi, st) ==
    IF st.i > hi THEN st
    ELSE IF lo = hi THEN ChecksumStep(data, st)
    ELSE LET mid == (lo + hi) \div 2
         IN  ChecksumLoop(data, mid + 1, hi, ChecksumLoop(data, lo, mid, st))

\* JT808Protocol.calculate_checksum(data)
calculate_checksum(data) == ChecksumLoop(data, 1, Len(data), [i |-> 1, checksum |-> 0]).checksum

\* One iteration of escape_data's loop.
\* An escape loop that stuffs the delimiter but lets 0x7D through unchanged.
EscapeStepDelimiterOnly(data, st) ==
    LET byte == data[st.i]
    IN  IF byte = 126
        THEN [i |-> st.i + 1, result |-> st.result \o <<125, 2>>]
        ELSE [i |-> st.i + 1, result |-> Append(st.result, byte)]

EscapeStep(data, st) ==
    LET byte == data[st.i]
    IN  IF byte = FRAME_DELIMITER
        THEN [i |-> st.i + 1, result |-> st.result \o <<ESCAPE_CHAR, 2>>]
        ELSE IF byte = ESCAPE_CHAR
        THEN [i |-> st.i + 1, result |-> st.result \o <<ESCAPE_CHAR, 1>>]
        ELSE [i |-> st.i + 1, result |-> Append(st.result, byte)]

RECURSIVE EscapeLoop(_, _, _, _)
EscapeLoop(data, lo, hi, st) ==
    IF st.i > hi THEN st
    ELSE IF lo = hi THEN EscapeStep(data, st)
    ELSE LET mid == (lo + hi) \div 2
         IN  EscapeLoop(data, mid + 1, hi, EscapeLoop(data, lo, mid, st))

\* JT808Protocol.escape_data(data)
escape_data(data) == EscapeLoop(data, 1, Len(data), [i |-> 1, result |-> <<>>]).result

\* An unescape loop with the two continuation codes exchanged.
UnescapeStepSwapped(data, st) ==
    IF data[st.i] = 125 /\ st.i + 1 <= Len(data)
    THEN IF data[st.i + 1] = 1 THEN [i |-> st.i + 2, result |-> Append(st.result, 126)]
         ELSE IF data[st.i + 1] = 2 THEN [i |-> st.i + 2, result |-> Append(st.result, 125)]
         ELSE [i |-> st.i + 1, result |-> Append(st.result, data[st.i])]
    ELSE [i |-> st.i + 1, result |-> Append(st.result, data[st.i])]

\* One iteration of unescape_data's while loop; st = [i, result], i is 1-based.
UnescapeStep(data, st) ==
    IF data[st.i] = ESCAPE_CHAR /\ st.i + 1 <= Len(data)
    THEN IF data[st.i + 1] = 2 THEN [i |-> st.i + 2, result |-> Append(st.result, FRAME_DELIMITER)]
         ELSE IF data[st.i + 1] = 1 THEN [i |-> st.i + 2, result |-> Append(st.result, ESCAPE_CHAR)]
         ELSE [i |-> st.i + 1, result |-> Append(st.result, data[st.i])]
    ELSE [i |-> st.i + 1, result |-> Append(st.result, data[st.i])]

\* while i < len(data): the iterations with lo <= i <= hi, given st.i >= lo.
RECURSIVE UnescapeLoop(_, _, _, _)
UnescapeLoop(data, lo, hi, st) ==
    IF st.i > hi THEN st
    ELSE IF lo = hi THEN UnescapeStep(data, st)
    ELSE LET mid == (lo + hi) \div 2
         IN  UnescapeLoop(data, mid + 1, hi, UnescapeLoop(data, lo, mid, st))

\* JT808Protocol.unescape_data(data)
unescape_data(data) == UnescapeLoop(data, 1, Len(data), [i |-> 1, result |-> <<>>]).result

\* str.zfill(width) on a digit string.
zfill(digits, width) ==
    IF Len(digits) >= width THEN digits
    ELSE [k \in 1..(width - Len(digits)) |-> 0] \o digits

\* A BCD encoder that puts the first digit of each pair into the low nibble.
encode_bcd_low_first(number_str, total_digits) ==
    LET s == IF Len(number_str) >= total_digits THEN number_str
             ELSE [k \in 1..(total_digits - Len(number_str)) |-> 0] \o number_str
        n == (Len(s) + 1) \div 2
    IN  [k \in 1..n |-> (IF 2 * k <= Len(s) THEN s[2 * k] ELSE 0) * 16 + s[2 * k - 1]]

\* JT808Protocol.encode_bcd(number_str, total_digits)
encode_bcd(number_str, total_digits) ==
    LET s == zfill(number_str, total_digits)
        n == (Len(s) + 1) \div 2
    IN  [k \in 1..n |->
            LET high == s[2 * k - 1]
                low == IF 2 * k <= Len(s) THEN s[2 * k] ELSE 0
            IN  BitOr(high * 16, low)]

\* f"{v}" of a nibble value 0..15: one or two decimal characters.
FormatInt(v) == IF v >= 10 THEN <<v \div 10, v % 10>> ELSE <<v>>

RECURSIVE DecodeBcdLoop(_, _, _)
DecodeBcdLoop(bcd_bytes, k, result) ==
    IF k > Len(bcd_bytes) THEN result
    ELSE LET high == BitAnd(bcd_bytes[k] \div 16, 15)
             low == BitAnd(bcd_bytes[k], 15)
         IN  DecodeBcdLoop(bcd_bytes, k + 1, result \o FormatInt(high) \o FormatInt(low))

\* JT808Protocol.decode_bcd(bcd_bytes)
decode_bcd(bcd_bytes) == DecodeBcdLoop(bcd_bytes, 1, <<>>)

\* The frame JT808Protocol.build_message returns, given the value seq that
\* get_next_sequence returned (msg_id and seq are 16-bit values here).
JT808Protocol_build_message(msg_id, phone_number, body, encrypt, subpackage, seq) ==
    LET body_len == Len(body)
        properties == BitOr(BitOr(BitAnd(body_len, BODY_LEN_MASK), BitAnd(encrypt, 7) * 1024),
                            IF subpackage THEN SUBPACKAGE_FLAG ELSE 0)
        phone_bcd == encode_bcd(phone_number, 12)
        header == PackH(msg_id) \o PackH(properties) \o phone_bcd \o PackH(seq)
        msg_data == header \o body
        checksum == calculate_checksum(msg_data)
        escaped == escape_data(Append(msg_data, checksum))
    IN  <<FRAME_DELIMITER>> \o escaped \o <<FRAME_DELIMITER>>

\* JT808Protocol.parse_message(frame)
JT808Protocol_parse_message(data_frame) ==
    IF Len(data_frame) < 13 THEN None
    ELSE IF data_frame[1] # FRAME_DELIMITER \/ data_frame[Len(data_frame)] # FRAME_DELIMITER
    THEN None
    ELSE LET unescaped == unescape_data(Slice(data_frame, 1, Len(data_frame) - 1))
         IN  IF Len(unescaped) < 12 THEN None
             ELSE LET checksum == unescaped[Len(unescaped)]
                      data == Slice(unescaped, 0, Len(unescaped) - 1)
                      calculated_checksum == calculate_checksum(data)
                  IN  IF checksum # calculated_checksum THEN None
                      ELSE IF ~CanUnpackH(Slice(data, 10, 12)) THEN StructError
                      ELSE LET msg_id == UnpackH(Slice(data, 0, 2))
                               properties == UnpackH(Slice(data, 2, 4))
                               phone == decode_bcd(Slice(data, 4, 10))
                               seq == UnpackH(Slice(data, 10, 12))
                               body_len == BitAnd(properties, BODY_LEN_MASK)
                           IN  [kind |-> "msg",
                                msg_id |-> msg_id,
                                phone |-> phone,
                                sequence |-> seq,
                                body |-> Slice(data, 12, 12 + body_len),
                                properties |-> properties]

\* JT808Protocol.encode_bcd_time(dt): dt as the 12 digits of strftime("%y%m%d%H%M%S").
encode_bcd_time(dt) == encode_bcd(dt, 12)

\* JT808Protocol.get_next_sequence: the value it stores back.
NextMsgSequence(v) == (v + 1) % SEQ_MODULUS

\* A get_next_sequence that enters its body whether or not the lock is held.
LockIgnored(lock) == TRUE

\* with self.sequence_lock: a thread enters when no thread holds the lock.
LockAvailable(lock) == lock = "free"

(***************************************************************************)
(* dc600_simulator.py: class JT808Protocol (static methods)                *)
(***************************************************************************)
\* JT808Protocol.parse_message(data) of dc600_simulator.py
Sim_parse_message(data) ==
    IF Len(data) < 2 THEN None
    ELSE IF data[1] # FRAME_DELIMITER \/ data[Len(data)] # FRAME_DELIMITER THEN None
    ELSE LET unescaped_data == unescape_data(Slice(data, 1, Len(data) - 1))
         IN  IF Len(unescaped_data) < 13 THEN None
             ELSE LET checksum_received == unescaped_data[Len(unescaped_data)]
                      checksum_calculated ==
                          calculate_checksum(Slice(unescaped_data, 0, Len(unescaped_data) - 1))
                  IN  IF checksum_received # checksum_calculated THEN None
                      ELSE LET body_attr == UnpackH(Slice(unescaped_data, 2, 4))
                               body_length == BitAnd(body_attr, BODY_LEN_MASK)
                           IN  [kind |-> "msg",
                                msg_id |-> UnpackH(Slice(unescaped_data, 0, 2)),
                                body_attr |-> body_attr,
                                phone |-> decode_bcd(Slice(unescaped_data, 4, 10)),
                                sequence |-> UnpackH(Slice(unescaped_data, 10, 12)),
                                body |-> Slice(unescaped_data, 12, 12 + body_length)]

(***************************************************************************)
(* dc600multimedia.py: module functions and class DC600Message             *)
(***************************************************************************)
DC600_SEQ_MODULUS == 65535

\* str.ljust(width, '0') followed by [:width] on a digit string.
ljust_cut(digits, width) ==
    IF Len(digits) >= width THEN SubSeq(digits, 1, width)
    ELSE digits \o [k \in 1..(width - Len(digits)) |-> 0]

\* bcd_encode_phone(phone)
bcd_encode_phone(phone) ==
    LET p == ljust_cut(phone, 12)
    IN  [k \in 1..6 |-> BitOr(p[2 * k - 1] * 16, p[2 * k])]

\* DC600Message.get_next_sequence: the value it stores and returns.
DC600Message_get_next_sequence(v) == (v + 1) % DC600_SEQ_MODULUS

\* DC600Message.encode_message, given the value get_next_sequence returned.
DC600Message_encode_message(msg_type, body, device_id, is_subpackage, total_packages, package_no, seq) ==
    LET body_length == BitAnd(Len(body), BODY_LEN_MASK)
        subpackage_bit == IF is_subpackage THEN 1 ELSE 0
        attributes == BitOr(BitOr(body_length, 0 * 1024), subpackage_bit * SUBPACKAGE_FLAG)
        phone_bcd == bcd_encode_phone(device_id)
        unescaped == PackH(msg_type) \o PackH(attributes) \o phone_bcd \o PackH(seq)
                     \o (IF is_subpackage THEN PackH(total_packages) \o PackH(package_no)
                         ELSE <<>>)
                     \o body
        checksum == calculate_checksum(unescaped)
        escaped == escape_data(unescaped)
    IN  <<FRAME_DELIMITER>> \o escaped \o <<checksum, FRAME_DELIMITER>>

\* bytes.hex(): the nibbles of each byte, high first.
Hex(bytes) == [k \in 1..(2 * Len(bytes)) |->
                  IF k % 2 = 1 THEN bytes[(k + 1) \div 2] \div 16 ELSE bytes[k \div 2] % 16]

\* DC600Message.decode_response(data); mismatch_logged records the WARNING it logs.
DC600Message_decode_response(data0) ==
    IF Len(data0) < 5 THEN None
    ELSE IF data0[1] # FRAME_DELIMITER \/ data0[Len(data0)] # FRAME_DELIMITER THEN None
    ELSE LET data1 == Slice(data0, 1, Len(data0) - 1)
             received_checksum == data1[Len(data1)]
             data == Slice(data1, 0, Len(data1) - 1)
             unescaped == unescape_data(data)
             calculated_checksum == calculate_checksum(unescaped)
         IN  IF Len(unescaped) < 12 THEN None
             ELSE LET attributes == UnpackH(Slice(unescaped, 2, 4))
                  IN  [kind |-> "msg",
                       msg_id |-> UnpackH(Slice(unescaped, 0, 2)),
                       attributes |-> attributes,
                       phone |-> Hex(Slice(unescaped, 4, 10)),
                       sequence |-> UnpackH(Slice(unescaped, 10, 12)),
                       body |-> IF Len(unescaped) > 12
                                THEN Slice(unescaped, 12, Len(unescaped)) ELSE <<>>,
                       body_length |-> BitAnd(attributes, BODY_LEN_MASK),
                       mismatch_logged |-> received_checksum # calculated_checksum]

(***************************************************************************)
(* test_dc600_protocol.py: class JT808Message                              *)
(***************************************************************************)
\* JT808Message.escape(data): the same loop as escape_data.
JT808Message_escape(data) == EscapeLoop(data, 1, Len(data), [i |-> 1, result |-> <<>>]).result

\* One iteration of JT808Message.unescape's while loop.
JT808Message_UnescapeStep(data, st) ==
    IF data[st.i] = ESCAPE_CHAR /\ st.i + 1 <= Len(data) /\ data[st.i + 1] = 1
    THEN [i |-> st.i + 2, result |-> Append(st.result, ESCAPE_CHAR)]
    ELSE IF data[st.i] = ESCAPE_CHAR /\ st.i + 1 <= Len(data) /\ data[st.i + 1] = 2
    THEN [i |-> st.i + 2, result |-> Append(st.result, FRAME_DELIMITER)]
    ELSE [i |-> st.i + 1, result |-> Append(st.result, data[st.i])]

RECURSIVE JT808Message_UnescapeLoop(_, _, _, _)
JT808Message_UnescapeLoop(data, lo, hi, st) ==
    IF st.i > hi THEN st
    ELSE IF lo = hi THEN JT808Message_UnescapeStep(data, st)
    ELSE LET mid == (lo + hi) \div 2
         IN  JT808Message_UnescapeLoop(data, mid + 1, hi,
                                       JT808Message_UnescapeLoop(data, lo, mid, st))

\* JT808Message.unescape(data)
JT808Message_unescape(data) ==
    JT808Message_UnescapeLoop(data, 1, Len(data), [i |-> 1, result |-> <<>>]).result

\* struct.pack('>H', seq) in JT808Message.build_message raises for seq > 65535.
JT808Message_build_raises(seq) == ~CanPackH(seq)

\* JT808Message.build_message(msg_id, device_id, seq, body), for a seq it accepts.
JT808Message_build_message(msg_id, device_id, seq, body) ==
    LET properties == BitAnd(Len(body), BODY_LEN_MASK)
        data == PackH(msg_id) \o PackH(properties) \o device_id \o PackH(seq) \o body
        checksum == calculate_checksum(data)
        escaped_data == JT808Message_escape(data)
    IN  <<FRAME_DELIMITER>> \o escaped_data \o <<checksum, FRAME_DELIMITER>>

\* JT808Message.parse_message(data)
JT808Message_parse_message(data) ==
    IF Len(data) < 13 THEN None
    ELSE IF data[1] # FRAME_DELIMITER \/ data[Len(data)] # FRAME_DELIMITER THEN None
    ELSE LET escaped_payload == Slice(data, 1, Len(data) - 2)
             received_checksum == data[Len(data) - 1]
             payload == JT808Message_unescape(escaped_payload)
             calculated_checksum == calculate_checksum(payload)
         IN  IF calculated_checksum # received_checksum THEN None
             ELSE IF Len(payload) < 12 THEN None
             ELSE LET properties == UnpackH(Slice(payload, 2, 4))
                      body_len == BitAnd(properties, BODY_LEN_MASK)
                  IN  [kind |-> "msg",
                       msg_id |-> UnpackH(Slice(payload, 0, 2)),
                       sequence |-> UnpackH(Slice(payload, 10, 12)),
                       body |-> IF Len(payload) >= 12 + body_len
                                THEN Slice(payload, 12, 12 + body_len) ELSE <<>>]

\* DC600Device.get_next_seq of test_dc600_protocol.py: the value it stores and returns.
DC600Device_get_next_seq(v) == v + 1

(***************************************************************************)
(* compare_9208_packets.py                                                 *)
(***************************************************************************)
\* One iteration of unescape_jt808's while loop: after 0x7D both bytes are consumed,
\* and a byte is appended only for the codes 0x01 and 0x02.
unescape_jt808_Step(data, st) ==
    IF data[st.i] = 125 /\ st.i + 1 <= Len(data)
    THEN [i |-> st.i + 2,
          result |-> IF data[st.i + 1] = 1 THEN Append(st.result, 125)
                     ELSE IF data[st.i + 1] = 2 THEN Append(st.result, 126)
                     ELSE st.result]
    ELSE [i |-> st.i + 1, result |-> Append(st.result, data[st.i])]

RECURSIVE unescape_jt808_Loop(_, _, _, _)
unescape_jt808_Loop(data, lo, hi, st) ==
    IF st.i > hi THEN st
    ELSE IF lo = hi THEN unescape_jt808_Step(data, st)
    ELSE LET mid == (lo + hi) \div 2
         IN  unescape_jt808_Loop(data, mid + 1, hi, unescape_jt808_Loop(data, lo, mid, st))

\* unescape_jt808(data)
unescape_jt808(data) == unescape_jt808_Loop(data, 1, Len(data), [i |-> 1, result |-> <<>>]).result

(***************************************************************************)
(* alaramTest.py: class JT808PacketBuilder                                 *)
(***************************************************************************)
\* JT808PacketBuilder._bcd_encode(number_string)
JT808PacketBuilder_bcd_encode(number_string) ==
    LET s == IF Len(number_string) % 2 # 0 THEN <<0>> \o number_string ELSE number_string
    IN  [k \in 1..(Len(s) \div 2) |-> BitOr(s[2 * k - 1] * 16, s[2 * k])]

\* JT808PacketBuilder._escape_packet(data): returns its argument.
JT808PacketBuilder_escape_packet(data) == data

\* The extensions loop of build_location_packet: tag, length, payload per entry.
RECURSIVE ExtensionsLoop(_, _, _)
ExtensionsLoop(extensions, k, body) ==
    IF k > Len(extensions) THEN body
    ELSE ExtensionsLoop(extensions, k + 1,
                        body \o <<extensions[k].ext_id, Len(extensions[k].ext_data)>>
                             \o extensions[k].ext_data)

\* The message body build_location_packet builds (lat, lon already int(x * 1000000),
\* now the 12 digits YYMMDDHHMMSS of datetime.now()).
JT808PacketBuilder_location_body(lat, lon, speed, course, altitude, alarm, status, now, extensions) ==
    ExtensionsLoop(extensions, 1,
                   PackI(alarm) \o PackI(status) \o PackI(lat) \o PackI(lon)
                   \o PackH(altitude) \o PackH(speed) \o PackH(course)
                   \o JT808PacketBuilder_bcd_encode(now))

\* JT808PacketBuilder.build_location_packet from the header on, given the body
\* and self.sequence.
JT808PacketBuilder_build_location_packet(device_id, body, seq) ==
    LET props == BitAnd(Len(body), BODY_LEN_MASK)
        header == PackH(512) \o PackH(props) \o JT808PacketBuilder_bcd_encode(device_id)
                  \o PackH(seq)
        packet_data == header \o body
        checksum == calculate_checksum(packet_data)
    IN  <<FRAME_DELIMITER>> \o packet_data \o <<checksum, FRAME_DELIMITER>>

(***************************************************************************)
(* dc600_device_simulator.py: class DC600Device (the senders)              *)
(***************************************************************************)
MULTIMEDIA_DATA_UPLOAD == 2049
TERMINAL_HEARTBEAT == 2
DUMMY_IMAGE_ZEROS == 1000

\* DC600Device.build_location_data(): the 28 bytes, from the device's current
\* state (lat, lon already int(abs(x) * 1000000), speed already int(speed * 10)).
build_location_data(lat, lon, altitude, speed, direction, now) ==
    PackI(0) \o PackI(3) \o PackI(lat) \o PackI(lon) \o PackH(altitude) \o PackH(speed)
    \o PackH(direction) \o encode_bcd_time(now)

\* The body DC600Device.upload_multimedia_file builds.
upload_multimedia_file_body(multimedia_id, location_data) ==
    LET dummy_image == <<255, 216, 255, 224>> \o [k \in 1..DUMMY_IMAGE_ZEROS |-> 0]
    IN  PackI(multimedia_id) \o <<0, 0, 1, 1>> \o location_data \o dummy_image

(***************************************************************************)
(* dc600_terminal_test.py: class DC600Protocol                             *)
(***************************************************************************)
\* DC600Terminal's default phone_number "013800138000".
TerminalPhone == <<0, 1, 3, 8, 0, 0, 1, 3, 8, 0, 0, 0>>

\* The messages one DC600Protocol object encodes, and every body of one byte.
MaxSerial == 3
OneByteBodies == {<<b>> : b \in 0..255}

\* DC600Protocol._encode_bcd(number_str, length), for a padded string of even length.
DC600Protocol_encode_bcd(number_str, length) ==
    LET v == zfill(number_str, length * 2)
    IN  [k \in 1..(Len(v) \div 2) |-> BitOr(v[2 * k - 1] * 16, v[2 * k])]

\* DC600Protocol.encode_message(msg_id, body): serial is self.msg_serial after the
\* increment.
DC600Protocol_encode_message(msg_id, body, phone_number, serial) ==
    LET body_attr == BitAnd(Len(body), BODY_LEN_MASK)
        header == PackH(msg_id) \o PackH(body_attr) \o DC600Protocol_encode_bcd(phone_number, 6)
                  \o PackH(serial)
        data == header \o body
        checksum == calculate_checksum(data)
        escaped == escape_data(data \o <<checksum>>)
    IN  <<FRAME_DELIMITER>> \o escaped \o <<FRAME_DELIMITER>>

\* DC600Protocol.decode_message(data) 
DC600Protocol_decode_message(data) ==
    IF Len(data) < 3 \/ data[1] # FRAME_DELIMITER \/ data[Len(data)] # FRAME_DELIMITER
    THEN None
    ELSE LET unescaped == unescape_data(Slice(data, 1, Len(data) - 1))
         IN  IF Len(unescaped) < 13 THEN None
             ELSE LET data_part == Slice(unescaped, 0, Len(unescaped) - 1)
                      checksum == unescaped[Len(unescaped)]
                  IN  IF checksum # calculate_checksum(data_part) THEN None
                      ELSE LET body_attr == UnpackH(Slice(data_part, 2, 4))
                               body_len == BitAnd(body_attr, BODY_LEN_MASK)
                           IN  [kind |-> "msg",
                                msg_id |-> UnpackH(Slice(data_part, 0, 2)),
                                sequence |-> UnpackH(Slice(data_part, 10, 12)),
                                body |-> Slice(data_part, 12, 12 + body_len)]

(***************************************************************************)
(* The inputs of the codec session.                                        *)
(***************************************************************************)
MaxBodyLen == 2

\* Byte values the bodies are made of: the two reserved values and the two
\* escape continuation codes.
BodyBytes == {1, 2, ESCAPE_CHAR, FRAME_DELIMITER}
ShortBodies == UNION {[1..n -> BodyBytes] : n \in 0..MaxBodyLen}
LongBodies == {[k \in 1..BODY_LEN_MASK |-> ESCAPE_CHAR]}
Bodies == ShortBodies \cup LongBodies

\* 0x0200, 0x0801 and an id made of the two reserved byte values (0x7D7E).
MsgIds == {512, 2049, 32126}

\* The default phone numbers of the scripts.
DevicePhone == <<0, 1, 3, 6, 4, 4, 0, 8, 1, 3, 3, 5>>
Phones == {DevicePhone, <<4, 9, 6, 0, 7, 6, 8, 9, 8, 9, 9, 1>>}

\* DeviceConfig.device_id_bytes = bytes.fromhex("496076898991")
device_id_bytes == <<73, 96, 118, 137, 137, 145>>

\* The frames each sender has already sent when the session starts.
FramesBefore == {0, 32126}

\* datetime.now() as YYMMDDHHMMSS digits.
Nows == {<<2, 6, 1, 1, 0, 4, 2, 2, 3, 0, 0, 0>>}

\* int(31.230416 * 1000000), int(121.473701 * 1000000): the device's position.
InitialLatitude == 31230416
InitialLongitude == 121473701

Sent(encoder, origin, msg_id, phone, body, seq, subpackage, total_packages, package_no) ==
    [encoder |-> encoder, origin |-> origin, msg_id |-> msg_id, phone |-> phone,
     body |-> body, seq |-> seq, subpackage |-> subpackage,
     total_packages |-> total_packages, package_no |-> package_no, tampered |-> "no"]

(***************************************************************************)
(* The codec session: one encoder call, the frame on the wire (possibly    *)
(* corrupted), one decoder call.                                           *)
(***************************************************************************)
\* JT808Protocol.build_message called with every argument it accepts.
BuildMessage ==
    /\ pc = "idle"
    /\ \E msg_id \in MsgIds, phone \in Phones, body \in Bodies, subpackage \in BOOLEAN :
          /\ frame' = JT808Protocol_build_message(msg_id, phone, body, 0, subpackage,
                                                  msg_sequence)
          /\ sent' = Sent("JT808Protocol.build_message", "call", msg_id, phone, body,
                          msg_sequence, subpackage, 0, 0)
    /\ msg_sequence' = NextMsgSequence(msg_sequence)
    /\ pc' = "sent"
    /\ UNCHANGED <<sessionVars, terminalVars, reasmVars, recvVars, alarmVars, bcdVars, sequence, seq_num, builder_sequence, received, stuffer, threadVars>>

\* DC600Device.send_message(msg_id, body) of dc600_device_simulator.py, called by
\* send_heartbeat (empty body).
SendHeartbeat ==
    /\ pc = "idle"
    /\ frame' = JT808Protocol_build_message(TERMINAL_HEARTBEAT, DevicePhone, <<>>, 0, FALSE,
                                            msg_sequence)
    /\ sent' = Sent("JT808Protocol.build_message", "sender", TERMINAL_HEARTBEAT, DevicePhone,
                    <<>>, msg_sequence, FALSE, 0, 0)
    /\ msg_sequence' = NextMsgSequence(msg_sequence)
    /\ pc' = "sent"
    /\ UNCHANGED <<sessionVars, terminalVars, reasmVars, recvVars, alarmVars, bcdVars, sequence, seq_num, builder_sequence, received, stuffer, threadVars>>

\* DC600Device.upload_multimedia_file(multimedia_id, delete_after), then send_message.
UploadMultimediaFile ==
    /\ pc = "idle"
    /\ \E multimedia_id \in {1, FRAME_DELIMITER}, now \in Nows :
          LET location_data == build_location_data(InitialLatitude, InitialLongitude,
                                                   0, 0, 0, now)
              body == upload_multimedia_file_body(multimedia_id, location_data)
          IN  /\ frame' = JT808Protocol_build_message(MULTIMEDIA_DATA_UPLOAD, DevicePhone,
                                                      body, 0, FALSE, msg_sequence)
              /\ sent' = Sent("JT808Protocol.build_message", "sender",
                              MULTIMEDIA_DATA_UPLOAD, DevicePhone, body, msg_sequence,
                              FALSE, 0, 0)
    /\ msg_sequence' = NextMsgSequence(msg_sequence)
    /\ pc' = "sent"
    /\ UNCHANGED <<sessionVars, terminalVars, reasmVars, recvVars, alarmVars, bcdVars, sequence, seq_num, builder_sequence, received, stuffer, threadVars>>

\* DC600Message.encode_message called with every argument it accepts.
EncodeMessage ==
    /\ pc = "idle"
    /\ \E msg_type \in MsgIds, device_id \in Phones, body \in Bodies,
          sub \in {<<FALSE, 1, 1>>, <<TRUE, 2, 1>>, <<TRUE, FRAME_DELIMITER, 2>>} :
          LET seq == DC600Message_get_next_sequence(sequence)
          IN  /\ sequence' = seq
              /\ frame' = DC600Message_encode_message(msg_type, body, device_id, sub[1],
                                                      sub[2], sub[3], seq)
              /\ sent' = Sent("DC600Message.encode_message", "call", msg_type, device_id,
                              body, seq, sub[1], sub[2], sub[3])
    /\ pc' = "sent"
    /\ UNCHANGED <<sessionVars, terminalVars, reasmVars, recvVars, alarmVars, bcdVars, msg_sequence, seq_num, builder_sequence, received, stuffer, threadVars>>

\* DC600Device.send_message(msg_id, body) of test_dc600_protocol.py: get_next_seq,
\* then JT808Message.build_message, which raises when seq does not fit 16 bits.
TestSendMessage ==
    /\ pc = "idle"
    /\ \E msg_id \in MsgIds, body \in Bodies :
          LET seq == DC600Device_get_next_seq(seq_num)
          IN  /\ seq_num' = seq
              /\ frame' = IF JT808Message_build_raises(seq) THEN <<>>
                          ELSE JT808Message_build_message(msg_id, device_id_bytes, seq, body)
              /\ sent' = Sent(IF JT808Message_build_raises(seq) THEN "struct.error"
                              ELSE "JT808Message.build_message",
                              "sender", msg_id, device_id_bytes, body, seq, FALSE, 0, 0)
    /\ pc' = "sent"
    /\ UNCHANGED <<sessionVars, terminalVars, reasmVars, recvVars, alarmVars, bcdVars, msg_sequence, sequence, builder_sequence, received, stuffer, threadVars>>

\* JT808PacketBuilder.build_location_packet(course=..., extensions=None).
BuildLocationPacket ==
    /\ pc = "idle"
    /\ \E course \in {59, FRAME_DELIMITER}, altitude \in {150, 32126}, now \in Nows :
          LET body == JT808PacketBuilder_location_body(43556454, 80000940, 913, course,
                                                       altitude, 0, 4980747, now, <<>>)
              device_id == <<4, 9, 6, 0, 7, 6, 8, 9, 8, 9, 9, 1>>
          IN  /\ frame' = JT808PacketBuilder_build_location_packet(device_id, body,
                                                                   builder_sequence)
              /\ sent' = Sent("JT808PacketBuilder.build_location_packet", "call", 512,
                              device_id, body, builder_sequence, FALSE, 0, 0)
    /\ builder_sequence' = builder_sequence + 1
    /\ pc' = "sent"
    /\ UNCHANGED <<sessionVars, terminalVars, reasmVars, recvVars, alarmVars, bcdVars, msg_sequence, sequence, seq_num, received, stuffer, threadVars>>

\* A frame arriving from the platform: header, body and a correct checksum, but a
\* properties field declaring `extra` more body bytes than the frame carries. The
\* checksum is escaped with the rest (escaped = TRUE) or appended raw.
PeerFrame(msg_id, phone_bcd, seq, body, extra, escaped) ==
    LET payload == PackH(msg_id) \o PackH(Len(body) + extra) \o phone_bcd \o PackH(seq)
                   \o body
        checksum == calculate_checksum(payload)
    IN  IF escaped
        THEN <<FRAME_DELIMITER>> \o escape_data(Append(payload, checksum))
             \o <<FRAME_DELIMITER>>
        ELSE <<FRAME_DELIMITER>> \o escape_data(payload) \o <<checksum, FRAME_DELIMITER>>

\* The socket delivers such a frame (receive_messages / receive_response / receive_message).
ReceivePeerFrame ==
    /\ pc = "idle"
    /\ \E msg_id \in {32769, 37384}, body \in ShortBodies, extra \in {1, 5},
          escaped \in BOOLEAN :
          /\ frame' = PeerFrame(msg_id, device_id_bytes, 1, body, extra, escaped)
          /\ sent' = [Sent("peer", "peer", msg_id, device_id_bytes, body, 1, FALSE, 0, 0)
                      EXCEPT !.tampered = "short"]
    /\ pc' = "sent"
    /\ UNCHANGED <<sessionVars, terminalVars, reasmVars, recvVars, alarmVars, bcdVars, counterVars, received, stuffer, threadVars>>

\* The transport corrupts one bit of the byte before the closing delimiter.
FlipChecksumBit ==
    /\ pc = "sent"
    /\ sent.tampered = "no"
    /\ Len(frame) >= 3
    /\ \E bit \in {1, 128} :
          frame' = [frame EXCEPT ![Len(frame) - 1] = BitXor(@, bit)]
    /\ sent' = [sent EXCEPT !.tampered = "checksum"]
    /\ UNCHANGED <<sessionVars, terminalVars, reasmVars, recvVars, alarmVars, bcdVars, pc, counterVars, received, stuffer, threadVars>>

Received(decoder, result) == [decoder |-> decoder, result |-> result]

\* JT808Protocol.parse_message(frame) of dc600_device_simulator.py
ParseMessage ==
    /\ pc = "sent"
    /\ received' = Received("JT808Protocol.parse_message", JT808Protocol_parse_message(frame))
    /\ pc' = "received"
    /\ UNCHANGED <<sessionVars, terminalVars, reasmVars, recvVars, alarmVars, bcdVars, sent, frame, counterVars, stuffer, threadVars>>

\* JT808Protocol.parse_message(data) of dc600_simulator.py
SimParseMessage ==
    /\ pc = "sent"
    /\ received' = Received("Sim.parse_message", Sim_parse_message(frame))
    /\ pc' = "received"
    /\ UNCHANGED <<sessionVars, terminalVars, reasmVars, recvVars, alarmVars, bcdVars, sent, frame, counterVars, stuffer, threadVars>>

\* DC600Message.decode_response(data)
DecodeResponse ==
    /\ pc = "sent"
    /\ received' = Received("DC600Message.decode_response",
                            DC600Message_decode_response(frame))
    /\ pc' = "received"
    /\ UNCHANGED <<sessionVars, terminalVars, reasmVars, recvVars, alarmVars, bcdVars, sent, frame, counterVars, stuffer, threadVars>>

\* JT808Message.parse_message(data)
TestParseMessage ==
    /\ pc = "sent"
    /\ received' = Received("JT808Message.parse_message", JT808Message_parse_message(frame))
    /\ pc' = "received"
    /\ UNCHANGED <<sessionVars, terminalVars, reasmVars, recvVars, alarmVars, bcdVars, sent, frame, counterVars, stuffer, threadVars>>

(***************************************************************************)
(* The byte stuffer on its own: escape, then unescape.                     *)
(***************************************************************************)
MaxStuffLen == 3
StuffBytes == BodyBytes \cup {0}
StuffInputs == UNION {[1..n -> StuffBytes] : n \in 0..MaxStuffLen}

\* JT808Protocol.escape_data / unescape_data
EscapeUnescape ==
    /\ pc = "idle"
    /\ \E x \in StuffInputs :
          stuffer' = [family |-> "JT808Protocol", x |-> x, escaped |-> escape_data(x),
                      unescaped |-> unescape_data(escape_data(x))]
    /\ pc' = "stuffed"
    /\ UNCHANGED <<sessionVars, terminalVars, reasmVars, recvVars, alarmVars, bcdVars, sent, frame, received, counterVars, threadVars>>

\* JT808Message.escape / unescape
TestEscapeUnescape ==
    /\ pc = "idle"
    /\ \E x \in StuffInputs :
          stuffer' = [family |-> "JT808Message", x |-> x, escaped |-> JT808Message_escape(x),
                      unescaped |-> JT808Message_unescape(JT808Message_escape(x))]
    /\ pc' = "stuffed"
    /\ UNCHANGED <<sessionVars, terminalVars, reasmVars, recvVars, alarmVars, bcdVars, sent, frame, received, counterVars, threadVars>>

\* JT808Protocol.unescape_data on bytes as received (parse_message's data_frame[1:-1]).
UnescapeData ==
    /\ pc = "idle"
    /\ \E data \in StuffInputs :
          stuffer' = [family |-> "JT808Protocol", data |-> data,
                      unescaped |-> unescape_data(data)]
    /\ pc' = "unescaped"
    /\ UNCHANGED <<sessionVars, terminalVars, reasmVars, recvVars, alarmVars, bcdVars, sent, frame, received, counterVars, threadVars>>

\* JT808Message.unescape on bytes as received.
TestUnescape ==
    /\ pc = "idle"
    /\ \E data \in StuffInputs :
          stuffer' = [family |-> "JT808Message", data |-> data,
                      unescaped |-> JT808Message_unescape(data)]
    /\ pc' = "unescaped"
    /\ UNCHANGED <<sessionVars, terminalVars, reasmVars, recvVars, alarmVars, bcdVars, sent, frame, received, counterVars, threadVars>>

\* unescape_jt808 of compare_9208_packets.py on bytes as received.
UnescapeJt808 ==
    /\ pc = "idle"
    /\ \E data \in StuffInputs :
          stuffer' = [family |-> "unescape_jt808", data |-> data,
                      unescaped |-> unescape_jt808(data)]
    /\ pc' = "unescaped"
    /\ UNCHANGED <<sessionVars, terminalVars, reasmVars, recvVars, alarmVars, bcdVars, sent, frame, received, counterVars, threadVars>>

\* The byte strings a socket can deliver: every string of up to MaxStuffLen bytes, and
\* delimited frames of up to MaxRawLen filler bytes followed by one more byte (for the
\* filler 0 the byte 0 is the correct checksum).
MaxRawLen == 13
RawFrames ==
    StuffInputs
    \cup {<<FRAME_DELIMITER>> \o [k \in 1..n |-> filler] \o <<last, FRAME_DELIMITER>> :
             n \in 0..MaxRawLen, filler \in {0, 1}, last \in {0, 1, ESCAPE_CHAR}}

\* JT808Protocol.parse_message(frame) of dc600_device_simulator.py on bytes from the socket.
ParseRawFrame ==
    /\ pc = "idle"
    /\ \E raw \in RawFrames :
          /\ frame' = raw
          /\ received' = Received("JT808Protocol.parse_message",
                                  JT808Protocol_parse_message(raw))
    /\ pc' = "parsed"
    /\ UNCHANGED <<sessionVars, terminalVars, reasmVars, recvVars, alarmVars, bcdVars, sent, counterVars, stuffer, threadVars>>

\* JT808Protocol.parse_message(data) of dc600_simulator.py on bytes from the socket.
SimParseRawFrame ==
    /\ pc = "idle"
    /\ \E raw \in RawFrames :
          /\ frame' = raw
          /\ received' = Received("Sim.parse_message", Sim_parse_message(raw))
    /\ pc' = "parsed"
    /\ UNCHANGED <<sessionVars, terminalVars, reasmVars, recvVars, alarmVars, bcdVars, sent, counterVars, stuffer, threadVars>>

\* What JT808Message.parse_message of test_dc600_protocol.py makes of a frame of
\* DC600Protocol.encode_message.
Interop(msg_id, body, data) ==
    [decoder |-> "JT808Message.parse_message", encoder |-> "DC600Protocol.encode_message",
     msg_id |-> msg_id, body |-> body, result |-> JT808Message_parse_message(data)]

\* DC600Protocol(phone_number).encode_message(msg_id, body) of dc600_terminal_test.py,
\* the first message of the object.
TerminalEncodeMessage ==
    /\ pc = "idle"
    /\ \E msg_id \in MsgIds \cup {TERMINAL_HEARTBEAT}, body \in ShortBodies \cup OneByteBodies :
          /\ msg_serial' = (msg_serial + 1) % SEQ_MODULUS
          /\ frame' = DC600Protocol_encode_message(msg_id, body, TerminalPhone, msg_serial')
          /\ received' = Interop(msg_id, body, frame')
    /\ pc' = "interop"
    /\ UNCHANGED <<sessionVars, reasmVars, recvVars, alarmVars, bcdVars, sent, stuffer, counterVars, threadVars>>

\* encode_message called again with the same message, as the heartbeat loop does.
TerminalEncodeAgain ==
    /\ pc = "interop"
    /\ msg_serial < MaxSerial
    /\ msg_serial' = (msg_serial + 1) % SEQ_MODULUS
    /\ frame' = DC600Protocol_encode_message(received.msg_id, received.body, TerminalPhone,
                                             msg_serial')
    /\ received' = Interop(received.msg_id, received.body, frame')
    /\ UNCHANGED <<sessionVars, pc, reasmVars, recvVars, alarmVars, bcdVars, sent, stuffer, counterVars, threadVars>>

Init ==
    /\ pc = "idle"
    /\ \E n \in FramesBefore :
          /\ msg_sequence = n % SEQ_MODULUS
          /\ sequence = n % DC600_SEQ_MODULUS
          /\ seq_num = n
          /\ builder_sequence = 1 + n
    /\ sent = None
    /\ frame = <<>>
    /\ received = None
    /\ stuffer = None
    /\ sequence_lock = "free"
    /\ tpc = <<>>
    /\ tseq = <<>>
    /\ ttmp = <<>>
    /\ issued = <<>>
    /\ wire = <<>>
    /\ bcd = None
    /\ alarm_extra = None
    /\ alarm_id_counter = 1
    /\ msg_seq = 0
    /\ attach = None
    /\ rstream = <<>>
    /\ rbuffer = <<>>
    /\ delivered = <<>>
    /\ assembly = <<>>
    /\ emitted = <<>>
    /\ arrivals = <<>>
    /\ reassembly_error = None
    /\ msg_serial = 0
    /\ client = None
    /\ running = FALSE
    /\ connected = FALSE
    /\ authenticated = FALSE
    /\ auth_code = <<>>
    /\ outbox = {}
    /\ threads = <<>>
    /\ run_pc = "none"
    /\ returned = None
    /\ socket = "none"
    /\ config = None
    /\ receiver = None
    /\ sender = None

Next ==
    \/ BuildMessage
    \/ SendHeartbeat
    \/ UploadMultimediaFile
    \/ EncodeMessage
    \/ TestSendMessage
    \/ BuildLocationPacket
    \/ ReceivePeerFrame
    \/ FlipChecksumBit
    \/ ParseMessage
    \/ SimParseMessage
    \/ DecodeResponse
    \/ TestParseMessage
    \/ EscapeUnescape
    \/ TestEscapeUnescape
    \/ UnescapeData
    \/ TestUnescape
    \/ UnescapeJt808
    \/ ParseRawFrame
    \/ SimParseRawFrame
    \/ TerminalEncodeMessage
    \/ TerminalEncodeAgain

Spec == Init /\ [][Next]_vars

(***************************************************************************)
(* The sequence counters: one sender issuing several frames.  The device   *)
(* simulator's JT808Protocol is shared by its heartbeat, location, alarm   *)
(* and receive threads; the two test clients are single-threaded.          *)
(***************************************************************************)
Threads == {"heartbeat", "location", "alarm", "receive"}

\* How many frames one run of the sequence scenario issues.
MaxFrames == 3

\* The frames a sender has issued before the run, up to the 16-bit roll-over.
SeqFramesBefore == {0, 65533, 65534}

Senders == {"JT808Protocol", "DC600Message", "DC600Device"}

\* Calls of get_next_sequence that have started.
Started == Len(issued) + Cardinality({t \in Threads : tpc[t] # "idle"})

Issue(thread, seq, built) == [thread |-> thread, seq |-> seq, built |-> built]

\* get_next_sequence: with self.sequence_lock (entering the block).
AcquireSequenceLock ==
    /\ pc = "seq"
    /\ sender.kind = "JT808Protocol"
    /\ Started < MaxFrames
    /\ \E t \in Threads :
          /\ tpc[t] = "idle"
          /\ LockAvailable(sequence_lock)
          /\ sequence_lock' = t
          /\ tpc' = [tpc EXCEPT ![t] = "read"]
    /\ UNCHANGED <<sessionVars, terminalVars, reasmVars, recvVars, alarmVars, bcdVars, codecVars, counterVars, tseq, ttmp, issued, wire, sender>>

\* get_next_sequence: seq = self.msg_sequence
ReadSequence ==
    /\ pc = "seq"
    /\ \E t \in Threads :
          /\ tpc[t] = "read"
          /\ tseq' = [tseq EXCEPT ![t] = msg_sequence]
          /\ tpc' = [tpc EXCEPT ![t] = "load"]
    /\ UNCHANGED <<sessionVars, terminalVars, reasmVars, recvVars, alarmVars, bcdVars, codecVars, counterVars, sequence_lock, ttmp, issued, wire, sender>>

\* get_next_sequence: the read of self.msg_sequence in (self.msg_sequence + 1) % 0x10000
LoadSequence ==
    /\ pc = "seq"
    /\ \E t \in Threads :
          /\ tpc[t] = "load"
          /\ ttmp' = [ttmp EXCEPT ![t] = msg_sequence]
          /\ tpc' = [tpc EXCEPT ![t] = "store"]
    /\ UNCHANGED <<sessionVars, terminalVars, reasmVars, recvVars, alarmVars, bcdVars, codecVars, counterVars, sequence_lock, tseq, issued, wire, sender>>

\* get_next_sequence: the assignment self.msg_sequence = ...
StoreSequence ==
    /\ pc = "seq"
    /\ \E t \in Threads :
          /\ tpc[t] = "store"
          /\ msg_sequence' = NextMsgSequence(ttmp[t])
          /\ tpc' = [tpc EXCEPT ![t] = "return"]
    /\ UNCHANGED <<sessionVars, terminalVars, reasmVars, recvVars, alarmVars, bcdVars, sent, frame, received, stuffer, pc, sequence, seq_num, builder_sequence,
                   sequence_lock, tseq, ttmp, issued, wire, sender>>

\* get_next_sequence: return seq (leaving the with block), and the rest of
\* build_message for the heartbeat the thread sends.
ReturnSequence ==
    /\ pc = "seq"
    /\ \E t \in Threads :
          /\ tpc[t] = "return"
          /\ sequence_lock' = "free"
          /\ issued' = Append(issued, tseq[t])
          /\ wire' = Append(wire, Issue(t, tseq[t], CanPackH(tseq[t])))
          /\ frame' = JT808Protocol_build_message(TERMINAL_HEARTBEAT, DevicePhone, <<>>, 0,
                                                  FALSE, tseq[t])
          /\ tpc' = [tpc EXCEPT ![t] = "idle"]
    /\ UNCHANGED <<sessionVars, terminalVars, reasmVars, recvVars, alarmVars, bcdVars, pc, sent, received, stuffer, counterVars, tseq, ttmp, sender>>

\* DC600MultimediaTest.send_message of dc600multimedia.py: encode_message with the
\* value DC600Message.get_next_sequence returns.
DC600MessageSend ==
    /\ pc = "seq"
    /\ sender.kind = "DC600Message"
    /\ Len(issued) < MaxFrames
    /\ LET seq == DC600Message_get_next_sequence(sequence)
       IN  /\ sequence' = seq
           /\ issued' = Append(issued, seq)
           /\ wire' = Append(wire, Issue("main", seq, CanPackH(seq)))
           /\ frame' = DC600Message_encode_message(TERMINAL_HEARTBEAT, <<>>, DevicePhone,
                                                   FALSE, 1, 1, seq)
    /\ UNCHANGED <<sessionVars, terminalVars, reasmVars, recvVars, alarmVars, bcdVars, pc, sent, received, stuffer, msg_sequence, seq_num, builder_sequence,
                   sequence_lock, tpc, tseq, ttmp, sender>>

\* DC600Device.send_message of test_dc600_protocol.py: get_next_seq, then build_message,
\* which raises struct.error for a sequence number that does not fit 16 bits.
DC600DeviceSend ==
    /\ pc = "seq"
    /\ sender.kind = "DC600Device"
    /\ Len(issued) < MaxFrames
    /\ LET seq == DC600Device_get_next_seq(seq_num)
       IN  /\ seq_num' = seq
           /\ issued' = Append(issued, seq)
           /\ wire' = Append(wire, Issue("main", seq, ~JT808Message_build_raises(seq)))
           /\ frame' = IF JT808Message_build_raises(seq) THEN frame
                       ELSE JT808Message_build_message(TERMINAL_HEARTBEAT, device_id_bytes,
                                                       seq, <<>>)
    /\ UNCHANGED <<sessionVars, terminalVars, reasmVars, recvVars, alarmVars, bcdVars, pc, sent, received, stuffer, msg_sequence, sequence, builder_sequence,
                   sequence_lock, tpc, tseq, ttmp, sender>>

InitSeq ==
    /\ pc = "seq"
    /\ \E kind \in Senders, n \in SeqFramesBefore :
          /\ sender = [kind |-> kind, frames_before |-> n]
          /\ msg_sequence = n % SEQ_MODULUS
          /\ sequence = n % DC600_SEQ_MODULUS
          /\ seq_num = n
          /\ builder_sequence = 1 + n
    /\ sent = None
    /\ frame = <<>>
    /\ received = None
    /\ stuffer = None
    /\ sequence_lock = "free"
    /\ tpc = [t \in Threads |-> "idle"]
    /\ tseq = [t \in Threads |-> 0]
    /\ ttmp = [t \in Threads |-> 0]
    /\ issued = <<>>
    /\ wire = <<>>
    /\ bcd = None
    /\ alarm_extra = None
    /\ alarm_id_counter = 1
    /\ msg_seq = 0
    /\ attach = None
    /\ rstream = <<>>
    /\ rbuffer = <<>>
    /\ delivered = <<>>
    /\ assembly = <<>>
    /\ emitted = <<>>
    /\ arrivals = <<>>
    /\ reassembly_error = None
    /\ msg_serial = 0
    /\ client = None
    /\ running = FALSE
    /\ connected = FALSE
    /\ authenticated = FALSE
    /\ auth_code = <<>>
    /\ outbox = {}
    /\ threads = <<>>
    /\ run_pc = "none"
    /\ returned = None
    /\ socket = "none"
    /\ config = None
    /\ receiver = None

NextSeq ==
    \/ AcquireSequenceLock
    \/ ReadSequence
    \/ LoadSequence
    \/ StoreSequence
    \/ ReturnSequence
    \/ DC600MessageSend
    \/ DC600DeviceSend

SpecSeq == InitSeq /\ [][NextSeq]_vars

(***************************************************************************)
(* The BCD functions called on their own.                                  *)
(***************************************************************************)
\* JT808Protocol.encode_bcd(value, length) of dc600_simulator.py raises IndexError when
\* the padded string has an odd number of digits.
Sim_encode_bcd_raises(value, length) == Len(zfill(value, length * 2)) % 2 = 1

\* JT808Protocol.encode_bcd(value, length) of dc600_simulator.py, for a value it accepts.
Sim_encode_bcd(value, length) ==
    LET v == zfill(value, length * 2)
    IN  [k \in 1..(Len(v) \div 2) |-> BitOr(v[2 * k - 1] * 16, v[2 * k])]

\* DEVICE_ID and PHONE_NUMBER of dc600multimedia.py.
DEVICE_ID == <<1, 2, 3, 4, 5, 6, 7, 8, 9, 0, 1, 2>>
PHONE_NUMBER == <<1, 3, 8, 0, 0, 1, 3, 8, 0, 0, 0>>

\* The digit strings given to the encoders: the scripts' ids with every pair of digits
\* at every byte position, their trailing digits, and every string of up to
\* MaxDigits digits.
MaxDigits == 2
Digits == 0..9
BaseIds == {DevicePhone, DEVICE_ID}
TwelveDigitStrings ==
    {[k \in 1..12 |-> IF k = 2 * j - 1 THEN a ELSE IF k = 2 * j THEN b ELSE base[k]] :
        base \in BaseIds, j \in 1..6, a \in Digits, b \in Digits}
ShortDigitStrings ==
    {SubSeq(base, Len(base) - n + 1, Len(base)) : base \in BaseIds \cup {PHONE_NUMBER}, n \in 0..11}
    \cup UNION {[1..n -> Digits] : n \in 0..MaxDigits}
DigitStrings == TwelveDigitStrings \cup ShortDigitStrings

\* The byte strings given to decode_bcd: up to MaxBcdLen bytes, nibbles above 9 included.
MaxBcdLen == 2
BcdBytes == {0, 18, 153, 154, 171, 240, 255}
BcdByteStrings == UNION {[1..n -> BcdBytes] : n \in 0..MaxBcdLen}

\* decode_bcd(encode_bcd(number_str, 12)) of dc600_device_simulator.py.
EncodeDecodeBcd ==
    /\ pc = "bcd-idle"
    /\ \E number_str \in DigitStrings :
          bcd' = [op |-> "JT808Protocol.encode_bcd", number_str |-> number_str,
                  encoded |-> encode_bcd(number_str, 12),
                  decoded |-> decode_bcd(encode_bcd(number_str, 12))]
    /\ pc' = "bcd"
    /\ UNCHANGED <<sessionVars, terminalVars, reasmVars, recvVars, alarmVars, sent, frame, received, stuffer, counterVars, threadVars>>

\* decode_bcd(encode_bcd(value, 6)) of dc600_simulator.py.
SimEncodeDecodeBcd ==
    /\ pc = "bcd-idle"
    /\ \E value \in DigitStrings :
          /\ ~Sim_encode_bcd_raises(value, 6)
          /\ bcd' = [op |-> "Sim.encode_bcd", number_str |-> value,
                     encoded |-> Sim_encode_bcd(value, 6),
                     decoded |-> decode_bcd(Sim_encode_bcd(value, 6))]
    /\ pc' = "bcd"
    /\ UNCHANGED <<sessionVars, terminalVars, reasmVars, recvVars, alarmVars, sent, frame, received, stuffer, counterVars, threadVars>>

\* bcd_encode_phone(phone) of dc600multimedia.py, as encode_message calls it for the
\* header's device id.
BcdEncodePhone ==
    /\ pc = "bcd-idle"
    /\ \E phone \in DigitStrings :
          bcd' = [op |-> "bcd_encode_phone", number_str |-> phone,
                  encoded |-> bcd_encode_phone(phone),
                  decoded |-> decode_bcd(bcd_encode_phone(phone))]
    /\ pc' = "bcd"
    /\ UNCHANGED <<sessionVars, terminalVars, reasmVars, recvVars, alarmVars, sent, frame, received, stuffer, counterVars, threadVars>>

\* decode_bcd(bcd_bytes) on bytes received from a peer.
DecodeBcd ==
    /\ pc = "bcd-idle"
    /\ \E bcd_bytes \in BcdByteStrings :
          bcd' = [op |-> "decode_bcd", bcd_bytes |-> bcd_bytes,
                  decoded |-> decode_bcd(bcd_bytes)]
    /\ pc' = "bcd"
    /\ UNCHANGED <<sessionVars, terminalVars, reasmVars, recvVars, alarmVars, sent, frame, received, stuffer, counterVars, threadVars>>

\* Device ids longer than the 12 digits of the header field: a 15-digit IMEI, and its
\* first 13 and 14 digits.
IMEI == <<1, 2, 3, 4, 5, 6, 7, 8, 9, 0, 1, 2, 3, 4, 5>>
LongDigitStrings == {SubSeq(IMEI, 1, n) : n \in 13..15}

\* The device-id field of the header, as build_message of dc600_device_simulator.py
\* (encode_bcd(phone_number, 12)), build_message of dc600_simulator.py
\* (encode_bcd(phone, 6)) and build_location_packet of alaramTest.py
\* (_bcd_encode(device_id)) write it.
EncodeDeviceId ==
    /\ pc = "bcd-idle"
    /\ \E device_id \in DigitStrings \cup LongDigitStrings :
          \/ bcd' = [op |-> "JT808Protocol.encode_bcd", number_str |-> device_id,
                     raised |-> FALSE, encoded |-> encode_bcd(device_id, 12)]
          \/ bcd' = [op |-> "Sim.encode_bcd", number_str |-> device_id,
                     raised |-> Sim_encode_bcd_raises(device_id, 6),
                     encoded |-> IF Sim_encode_bcd_raises(device_id, 6) THEN <<>>
                                 ELSE Sim_encode_bcd(device_id, 6)]
          \/ bcd' = [op |-> "JT808PacketBuilder._bcd_encode", number_str |-> device_id,
                     raised |-> FALSE, encoded |-> JT808PacketBuilder_bcd_encode(device_id)]
    /\ pc' = "bcd-id"
    /\ UNCHANGED <<sessionVars, terminalVars, reasmVars, recvVars, alarmVars, sent, frame, received, stuffer, counterVars, threadVars>>

InitBcd ==
    /\ pc = "bcd-idle"
    /\ msg_sequence = 0
    /\ sequence = 0
    /\ seq_num = 0
    /\ builder_sequence = 1
    /\ sent = None
    /\ frame = <<>>
    /\ received = None
    /\ stuffer = None
    /\ sequence_lock = "free"
    /\ tpc = <<>>
    /\ tseq = <<>>
    /\ ttmp = <<>>
    /\ issued = <<>>
    /\ wire = <<>>
    /\ sender = None
    /\ bcd = None
    /\ alarm_extra = None
    /\ alarm_id_counter = 1
    /\ msg_seq = 0
    /\ attach = None
    /\ rstream = <<>>
    /\ rbuffer = <<>>
    /\ delivered = <<>>
    /\ assembly = <<>>
    /\ emitted = <<>>
    /\ arrivals = <<>>
    /\ reassembly_error = None
    /\ msg_serial = 0
    /\ client = None
    /\ running = FALSE
    /\ connected = FALSE
    /\ authenticated = FALSE
    /\ auth_code = <<>>
    /\ outbox = {}
    /\ threads = <<>>
    /\ run_pc = "none"
    /\ returned = None
    /\ socket = "none"
    /\ config = None
    /\ receiver = None

NextBcd ==
    \/ EncodeDeviceId
    \/ EncodeDecodeBcd
    \/ SimEncodeDecodeBcd
    \/ BcdEncodePhone
    \/ DecodeBcd

SpecBcd == InitBcd /\ [][NextBcd]_vars

(***************************************************************************)
(* The alarm scenario: the ADAS (0x64) and DSM (0x65) extensions.          *)
(***************************************************************************)
\* bytes(n): n zero bytes.
Zeros(n) == [k \in 1..n |-> 0]

\* s.ljust(width, fill): pads on the right, never shortens.
ljust(s, width, fill) ==
    IF Len(s) >= width THEN s ELSE s \o [k \in 1..(width - Len(s)) |-> fill]

\* ADASAlarmType and DSMAlarmType of dc600_device_simulator.py (the members' values).
ADASAlarmType == {1, 2, 4, 8, 16, 32, 256, 512, 1024, 4096, 8192}
DSMAlarmType == {1, 2, 4, 8, 16, 128}

\* ADAS_WARNTYPE_MAP.get(alarm_type, 0)
ADAS_WARNTYPE_MAP(alarm_type) ==
    CASE alarm_type = 1 -> 1
      [] alarm_type = 8 -> 2
      [] alarm_type = 2 -> 3
      [] alarm_type = 8192 -> 4
      [] alarm_type = 256 -> 5
      [] OTHER -> 0

\* DSM_WARNTYPE_MAP.get(alarm_type, 0)
DSM_WARNTYPE_MAP(alarm_type) ==
    CASE alarm_type = 1 -> 12
      [] alarm_type = 2 -> 9
      [] alarm_type = 4 -> 10
      [] alarm_type = 8 -> 11
      [] alarm_type = 128 -> 14
      [] OTHER -> 0

\* DC600Device.build_adas_alarm_extra_data(alarm_type, level): self is the device's
\* state, now the clock's digits, rnd the values drawn from random.
build_adas_alarm_extra_data(self, alarm_type, level, now, rnd) ==
    LET content ==
            PackI(self.alarm_id_counter)
            \o <<0, ADAS_WARNTYPE_MAP(alarm_type), level>>
            \o <<IF alarm_type = 1 THEN self.speed + rnd.uniform ELSE 0>>
            \o <<IF alarm_type = 1 THEN rnd.distance ELSE 0>>
            \o <<IF alarm_type = 2 THEN rnd.deviation ELSE 0>>
            \o <<IF alarm_type = 256 THEN rnd.road_sign ELSE 0>>
            \o <<0, self.speed>>
            \o PackH(self.altitude)
            \o PackI(self.latitude)
            \o PackI(self.longitude)
            \o encode_bcd_time(now)
            \o PackH(0)
            \o Zeros(22)
    IN  <<100, Len(content)>> \o content

\* DC600Device.build_dsm_alarm_extra_data(alarm_type, level)
build_dsm_alarm_extra_data(self, alarm_type, level, now, rnd) ==
    LET content ==
            PackI(self.alarm_id_counter)
            \o <<0, DSM_WARNTYPE_MAP(alarm_type), level>>
            \o <<IF alarm_type = 1 THEN rnd.fatigue ELSE 0>>
            \o Zeros(4)
            \o <<self.speed>>
            \o PackH(self.altitude)
            \o PackI(self.latitude)
            \o PackI(self.longitude)
            \o encode_bcd_time(now)
            \o PackH(0)
            \o Zeros(16)
    IN  <<101, Len(content)>> \o content

\* ADASAlarmType, DSMAlarmType and AlarmLevel of dc600_simulator.py.
Sim_ADASAlarmType == {1, 2, 3, 4, 5, 6, 7, 16, 17}
Sim_DSMAlarmType == {1, 2, 3, 4, 5, 16, 17}
AlarmLevel == {1, 2}

\* MessageID.LOCATION_REPORT of dc600_simulator.py.
LOCATION_REPORT == 512

\* JT808Protocol.encode_datetime(dt) of dc600_simulator.py.
encode_datetime(dt) == Sim_encode_bcd(dt, 6)

\* JT808Protocol.build_message(msg_id, body, phone, seq) of dc600_simulator.py.
Sim_build_message(msg_id, body, phone, seq) ==
    LET body_attr == BitAnd(Len(body), BODY_LEN_MASK)
        header == PackH(msg_id) \o PackH(body_attr) \o Sim_encode_bcd(phone, 6) \o PackH(seq)
        data_to_check == header \o body
        checksum == calculate_checksum(data_to_check)
        escaped_data == escape_data(data_to_check \o <<checksum>>)
    IN  <<FRAME_DELIMITER>> \o escaped_data \o <<FRAME_DELIMITER>>

\* The alarm sign number of send_adas_alarm and send_dsm_alarm (Table 4-16):
\* terminal_id.ljust(7, '\x00') + encode_datetime + serial, attachment count, reserved.
Sim_alarm_sign(terminal_id, alarm) ==
    ljust(terminal_id, 7, 0) \o encode_datetime(alarm.timestamp)
    \o <<alarm.serial_number, alarm.attachment_count, 0>>

\* adas_info of send_adas_alarm.
Sim_adas_info(terminal_id, alarm) ==
    PackI(alarm.alarm_id)
    \o <<alarm.flag_status, alarm.alarm_type, alarm.alarm_level,
         alarm.preceding_vehicle_speed, alarm.vehicle_distance, alarm.deviation_type,
         alarm.road_sign_type, alarm.road_sign_data, alarm.speed>>
    \o PackH(alarm.altitude)
    \o PackI(alarm.latitude)
    \o PackI(alarm.longitude)
    \o encode_datetime(alarm.timestamp)
    \o PackH(alarm.vehicle_status)
    \o Sim_alarm_sign(terminal_id, alarm)

\* dsm_info of send_dsm_alarm.
Sim_dsm_info(terminal_id, alarm) ==
    PackI(alarm.alarm_id)
    \o <<alarm.flag_status, alarm.alarm_type, alarm.alarm_level, alarm.fatigue_level>>
    \o Zeros(4)
    \o <<alarm.speed>>
    \o PackH(alarm.altitude)
    \o PackI(alarm.latitude)
    \o PackI(alarm.longitude)
    \o encode_datetime(alarm.timestamp)
    \o PackH(alarm.vehicle_status)
    \o Sim_alarm_sign(terminal_id, alarm)

\* The basic location info that send_adas_alarm and send_dsm_alarm put before the
\* extension: LocationData(alarm_flag=0, status_flag=vehicle_status, ..., direction=0).
Sim_alarm_location(alarm) ==
    PackI(0) \o PackI(alarm.vehicle_status) \o PackI(alarm.latitude) \o PackI(alarm.longitude)
    \o PackH(alarm.altitude) \o PackH(alarm.speed * 10) \o PackH(0)
    \o encode_datetime(alarm.timestamp)

\* The body send_adas_alarm (tag 0x64) and send_dsm_alarm (tag 0x65) hand to send_message.
Sim_alarm_body(tag, info, alarm) == Sim_alarm_location(alarm) \o <<tag, Len(info)>> \o info

\* The alarms built in one run of the device simulator.
MaxAlarms == 2

\* self.speed and self.altitude of DC600Device; the values random draws, the lowest
\* and the highest of each: int(uniform(5, 15)), randint(10, 50), choice([1, 2]),
\* randint(1, 10).
DeviceSpeeds == {0, 60}
DeviceAltitudes == {0, 100}
Randoms ==
    {[uniform |-> 5, distance |-> 10, deviation |-> 1, road_sign |-> 1, fatigue |-> 1],
     [uniform |-> 14, distance |-> 50, deviation |-> 2, road_sign |-> 10, fatigue |-> 10]}

\* DeviceConfig.terminal_id: the default "1234567", main()'s "TEST001", and a shorter
\* and a longer id, as ASCII codes.
TerminalIds ==
    {<<49, 50, 51, 52, 53, 54, 55>>, <<84, 69, 83, 84, 48, 48, 49>>,
     <<68, 67, 54, 48, 48>>, <<49, 50, 51, 52, 53, 54, 55, 56>>}

\* DeviceConfig.phone_number as main() sets it: "013800138000".
SimPhone == <<0, 1, 3, 8, 0, 0, 1, 3, 8, 0, 0, 0>>

\* ADASAlarmData(alarm_id, flag_status, alarm_type, alarm_level) with its defaults.
ADASAlarmData(alarm_id, flag_status, alarm_type, alarm_level, timestamp) ==
    [alarm_id |-> alarm_id, flag_status |-> flag_status, alarm_type |-> alarm_type,
     alarm_level |-> alarm_level, preceding_vehicle_speed |-> 0, vehicle_distance |-> 0,
     deviation_type |-> 0, road_sign_type |-> 0, road_sign_data |-> 0, speed |-> 60,
     altitude |-> 10, latitude |-> InitialLatitude, longitude |-> InitialLongitude,
     timestamp |-> timestamp, vehicle_status |-> 3, serial_number |-> 0,
     attachment_count |-> 1]

\* DSMAlarmData(alarm_id, flag_status, alarm_type, alarm_level) with its defaults.
DSMAlarmData(alarm_id, flag_status, alarm_type, alarm_level, timestamp) ==
    [alarm_id |-> alarm_id, flag_status |-> flag_status, alarm_type |-> alarm_type,
     alarm_level |-> alarm_level, fatigue_level |-> 0, speed |-> 60,
     altitude |-> 10, latitude |-> InitialLatitude, longitude |-> InitialLongitude,
     timestamp |-> timestamp, vehicle_status |-> 3, serial_number |-> 0,
     attachment_count |-> 1]

\* The state of DC600Device that the extension builders read.
DeviceSelf(speed, altitude) ==
    [alarm_id_counter |-> alarm_id_counter, speed |-> speed, altitude |-> altitude,
     latitude |-> InitialLatitude, longitude |-> InitialLongitude]

\* DC600Device.build_adas_alarm_extra_data, with get_next_alarm_id's increment.
BuildAdasAlarmExtraData ==
    /\ pc \in {"alarm-idle", "device-alarm"}
    /\ alarm_id_counter <= MaxAlarms
    /\ \E alarm_type \in ADASAlarmType, level \in AlarmLevel, now \in Nows,
          speed \in DeviceSpeeds, altitude \in DeviceAltitudes, rnd \in Randoms :
          alarm_extra' = [builder |-> "build_adas_alarm_extra_data",
                    alarm_type |-> alarm_type, level |-> level,
                    extension |-> build_adas_alarm_extra_data(DeviceSelf(speed, altitude),
                                                              alarm_type, level, now, rnd),
                    sign |-> <<>>, message |-> <<>>,
                    terminal_id |-> <<>>, timestamp |-> now]
    /\ alarm_id_counter' = alarm_id_counter + 1
    /\ pc' = "device-alarm"
    /\ UNCHANGED <<sessionVars, terminalVars, reasmVars, recvVars, msg_seq, attach, sent, frame, received, stuffer, counterVars, threadVars, bcdVars>>

\* DC600Device.build_dsm_alarm_extra_data, with get_next_alarm_id's increment.
BuildDsmAlarmExtraData ==
    /\ pc \in {"alarm-idle", "device-alarm"}
    /\ alarm_id_counter <= MaxAlarms
    /\ \E alarm_type \in DSMAlarmType, level \in AlarmLevel, now \in Nows,
          speed \in DeviceSpeeds, altitude \in DeviceAltitudes, rnd \in Randoms :
          alarm_extra' = [builder |-> "build_dsm_alarm_extra_data",
                    alarm_type |-> alarm_type, level |-> level,
                    extension |-> build_dsm_alarm_extra_data(DeviceSelf(speed, altitude),
                                                             alarm_type, level, now, rnd),
                    sign |-> <<>>, message |-> <<>>,
                    terminal_id |-> <<>>, timestamp |-> now]
    /\ alarm_id_counter' = alarm_id_counter + 1
    /\ pc' = "device-alarm"
    /\ UNCHANGED <<sessionVars, terminalVars, reasmVars, recvVars, msg_seq, attach, sent, frame, received, stuffer, counterVars, threadVars, bcdVars>>

\* DC600Simulator.send_adas_alarm(alarm) on a connected simulator, send_message included.
SendAdasAlarm ==
    /\ pc \in {"alarm-idle", "sim-alarm"}
    /\ msg_seq < MaxAlarms
    /\ \E terminal_id \in TerminalIds, alarm_type \in Sim_ADASAlarmType,
          alarm_level \in AlarmLevel, timestamp \in Nows :
          LET data == ADASAlarmData(msg_seq + 1, 1, alarm_type, alarm_level, timestamp)
              adas_info == Sim_adas_info(terminal_id, data)
              body == Sim_alarm_body(100, adas_info, data)
          IN  /\ msg_seq' = (msg_seq + 1) % SEQ_MODULUS
              /\ alarm_extra' = [builder |-> "send_adas_alarm", alarm_type |-> alarm_type,
                           level |-> alarm_level,
                           extension |-> Slice(body, 28, Len(body)),
                           sign |-> Sim_alarm_sign(terminal_id, data),
                           message |-> Sim_build_message(LOCATION_REPORT, body, SimPhone,
                                                         msg_seq'),
                           terminal_id |-> terminal_id, timestamp |-> timestamp]
    /\ pc' = "sim-alarm"
    /\ UNCHANGED <<sessionVars, terminalVars, reasmVars, recvVars, alarm_id_counter, attach, sent, frame, received, stuffer, counterVars, threadVars, bcdVars>>

\* DC600Simulator.send_dsm_alarm(alarm) on a connected simulator, send_message included.
SendDsmAlarm ==
    /\ pc \in {"alarm-idle", "sim-alarm"}
    /\ msg_seq < MaxAlarms
    /\ \E terminal_id \in TerminalIds, alarm_type \in Sim_DSMAlarmType,
          alarm_level \in AlarmLevel, timestamp \in Nows :
          LET data == DSMAlarmData(msg_seq + 1, 1, alarm_type, alarm_level, timestamp)
              dsm_info == Sim_dsm_info(terminal_id, data)
              body == Sim_alarm_body(101, dsm_info, data)
          IN  /\ msg_seq' = (msg_seq + 1) % SEQ_MODULUS
              /\ alarm_extra' = [builder |-> "send_dsm_alarm", alarm_type |-> alarm_type,
                           level |-> alarm_level,
                           extension |-> Slice(body, 28, Len(body)),
                           sign |-> Sim_alarm_sign(terminal_id, data),
                           message |-> Sim_build_message(LOCATION_REPORT, body, SimPhone,
                                                         msg_seq'),
                           terminal_id |-> terminal_id, timestamp |-> timestamp]
    /\ pc' = "sim-alarm"
    /\ UNCHANGED <<sessionVars, terminalVars, reasmVars, recvVars, alarm_id_counter, attach, sent, frame, received, stuffer, counterVars, threadVars, bcdVars>>

\* DC600Device.build_standard_extra_info() with the length of the mileage entry
\* one too large.
build_standard_extra_info_long(self) ==
    <<1, 5>> \o PackI(self.mileage * 10) \o <<37, 4>> \o PackI(0) \o <<48, 1, 31>> \o <<49, 1, 12>>

\* DC600Device.build_standard_extra_info(): the entries 0x01, 0x25, 0x30 and 0x31
\* (self.mileage in whole km).
build_standard_extra_info(self) ==
    <<1, 4>> \o PackI(self.mileage * 10) \o <<37, 4>> \o PackI(0) \o <<48, 1, 31>> \o <<49, 1, 12>>

\* The body DC600Device.send_location_report(alarm_flag, status_flag, extra_data) hands
\* to send_message (self.speed in whole km/h).
send_location_report_body(self, alarm_flag, status_flag, extra_data, now) ==
    PackI(alarm_flag) \o PackI(IF status_flag = 0 THEN 3 ELSE status_flag)
    \o PackI(self.latitude) \o PackI(self.longitude) \o PackH(self.altitude)
    \o PackH(self.speed * 10) \o PackH(self.direction) \o encode_bcd_time(now)
    \o extra_data

\* adas_alarms and dsm_alarms of DC600Device.alarm_simulation_loop, the alarm types
\* the device requests.
adas_alarms == {1, 2, 8, 8192, 256}
dsm_alarms == {1, 2, 4, 8, 128}

\* The state of DC600Device that the report builders read.
ReportSelf(speed, altitude, mileage) ==
    [alarm_id_counter |-> alarm_id_counter, speed |-> speed, altitude |-> altitude,
     latitude |-> InitialLatitude, longitude |-> InitialLongitude,
     direction |-> 359, mileage |-> mileage]

Report(builder, alarm_type, level, body, now) ==
    [builder |-> builder, alarm_type |-> alarm_type, level |-> level,
     extension |-> Slice(body, 28, Len(body)), sign |-> <<>>, message |-> body,
     terminal_id |-> <<>>, timestamp |-> now]

\* One iteration of DC600Device.send_location_loop: the periodic location report.
SendLocationReport ==
    /\ pc \in {"alarm-idle", "device-report"}
    /\ \E now \in Nows, speed \in DeviceSpeeds, altitude \in DeviceAltitudes,
          mileage \in {0, 123} :
          LET self == ReportSelf(speed, altitude, mileage)
              body == send_location_report_body(self, 0, 0, build_standard_extra_info(self),
                                                now)
          IN  alarm_extra' = Report("send_location_report", 0, 0, body, now)
    /\ pc' = "device-report"
    /\ UNCHANGED <<sessionVars, terminalVars, reasmVars, recvVars, alarm_id_counter, msg_seq, attach, sent, frame, received, stuffer, counterVars, threadVars, bcdVars>>

\* DC600Device.send_adas_alarm(alarm_type, level) as alarm_simulation_loop calls it.
DeviceSendAdasAlarm ==
    /\ pc \in {"alarm-idle", "device-report"}
    /\ alarm_id_counter <= MaxAlarms
    /\ \E alarm_type \in adas_alarms, level \in AlarmLevel, now \in Nows,
          speed \in DeviceSpeeds, altitude \in DeviceAltitudes, rnd \in Randoms :
          LET self == ReportSelf(speed, altitude, 0)
              alarm_extra_data == build_adas_alarm_extra_data(self, alarm_type, level, now, rnd)
              extra_data == alarm_extra_data \o build_standard_extra_info(self)
              body == send_location_report_body(self, alarm_type, 3, extra_data, now)
          IN  alarm_extra' = Report("DC600Device.send_adas_alarm", alarm_type, level, body, now)
    /\ alarm_id_counter' = alarm_id_counter + 1
    /\ pc' = "device-report"
    /\ UNCHANGED <<sessionVars, terminalVars, reasmVars, recvVars, msg_seq, attach, sent, frame, received, stuffer, counterVars, threadVars, bcdVars>>

\* DC600Device.send_dsm_alarm(alarm_type, level) as alarm_simulation_loop calls it.
DeviceSendDsmAlarm ==
    /\ pc \in {"alarm-idle", "device-report"}
    /\ alarm_id_counter <= MaxAlarms
    /\ \E alarm_type \in dsm_alarms, level \in AlarmLevel, now \in Nows,
          speed \in DeviceSpeeds, altitude \in DeviceAltitudes, rnd \in Randoms :
          LET self == ReportSelf(speed, altitude, 0)
              alarm_extra_data == build_dsm_alarm_extra_data(self, alarm_type, level, now, rnd)
              extra_data == alarm_extra_data \o build_standard_extra_info(self)
              body == send_location_report_body(self, alarm_type * 65536, 3, extra_data, now)
          IN  alarm_extra' = Report("DC600Device.send_dsm_alarm", alarm_type, level, body, now)
    /\ alarm_id_counter' = alarm_id_counter + 1
    /\ pc' = "device-report"
    /\ UNCHANGED <<sessionVars, terminalVars, reasmVars, recvVars, msg_seq, attach, sent, frame, received, stuffer, counterVars, threadVars, bcdVars>>

(***************************************************************************)
(* The attachment scenario: a 0x9208 request arrives and is answered.      *)
(***************************************************************************)
\* Message ids: 0x9208, 0x1210 and the terminal general response 0x0001.
ALARM_ATTACHMENT_UPLOAD_CMD == 37384
ALARM_ATTACHMENT_INFO == 4624
TERMINAL_GENERAL_RESPONSE == 1

\* str(n).encode('ascii') for n >= 0.
RECURSIVE Str(_)
Str(n) == IF n >= 10 THEN Append(Str(n \div 10), 48 + (n % 10)) ELSE <<48 + n>>

\* bytes.decode('ascii', errors='ignore'): bytes above 0x7F are dropped.
DecodeAsciiIgnore(b) == SelectSeq(b, LAMBDA c : c < 128)

\* str.rstrip('\x00')
RECURSIVE rstrip(_, _)
rstrip(s, c) == IF s # <<>> /\ s[Len(s)] = c THEN rstrip(SubSeq(s, 1, Len(s) - 1), c) ELSE s

\* s.split('-'): the parts, found from the right.
RECURSIVE split(_, _)
split(s, sep) ==
    IF \A k \in 1..Len(s) : s[k] # sep THEN <<s>>
    ELSE LET last == CHOOSE k \in 1..Len(s) :
                         s[k] = sep /\ \A j \in (k + 1)..Len(s) : s[j] # sep
         IN  Append(split(SubSeq(s, 1, last - 1), sep), SubSeq(s, last + 1, Len(s)))

\* DC600Device.extract_timestamp_from_alarm_info(alarm_info): the first ten characters
\* of the fourth part when they are digits (int() of them), else <<>> for 0.
extract_timestamp_from_alarm_info(alarm_info) ==
    LET parts == split(alarm_info, 45)
    IN  IF Len(parts) >= 4 /\ Len(parts[4]) >= 10
           /\ \A k \in 1..10 : parts[4][k] \in 48..57
        THEN SubSeq(parts[4], 1, 10)
        ELSE <<>>

\* DC600Device.send_file_info_upload(alarm_seq, alarm_timestamp): the 0x1210 body of a
\* device whose event_videos and event_photos hold nothing for the timestamp.
send_file_info_upload_body(alarm_seq, alarm_timestamp) == PackH(alarm_seq) \o <<0>>

\* DC600Device._build_file_info(file_name, file_size, media_type, channel_id) of
\* test_dc600_protocol.py.
build_file_info(file_name, file_size, media_type, channel_id) ==
    <<Len(file_name)>> \o file_name \o PackI(file_size) \o <<media_type, channel_id, 0>>

\* "CH1IMG20251024-075730-{n}.jpg" and "CH1EVT20251024-075730-0.mp4" as ASCII codes.
PhotoName(n) ==
    <<67, 72, 49, 73, 77, 71, 50, 48, 50, 53, 49, 48, 50, 52, 45, 48, 55, 53, 55, 51, 48, 45>>
    \o Str(n) \o <<46, 106, 112, 103>>
VideoName ==
    <<67, 72, 49, 69, 86, 84, 50, 48, 50, 53, 49, 48, 50, 52, 45, 48, 55, 53, 55, 51, 48, 45,
      48, 46, 109, 112, 52>>

\* DeviceConfig.device_id of test_dc600_protocol.py, "496076898991", as ASCII codes.
TestDeviceId == <<52, 57, 54, 48, 55, 54, 56, 57, 56, 57, 57, 49>>

\* The body DC600Device.send_1210_response(alarm_id, alarm_type) hands to send_message.
send_1210_response_body(alarm_id, alarm_type) ==
    Slice(ljust(TestDeviceId, 7, 48), 0, 7)
    \o Zeros(16)
    \o Slice(ljust(<<65, 76, 77, 45>> \o TestDeviceId \o <<45>> \o Str(alarm_id), 32, 0), 0, 32)
    \o Zeros(8)
    \o <<4>>
    \o build_file_info(PhotoName(0), 50000, 0, 1)
    \o build_file_info(PhotoName(1), 50000, 0, 1)
    \o build_file_info(PhotoName(2), 50000, 0, 1)
    \o build_file_info(VideoName, 500000, 1, 1)

\* The 0x9208 body the platform sends (T/JSATL12-2017 Table 4-21), as the handlers read
\* it: IP length, IP, TCP port, UDP port, alarm flag (16), alarm number (32), reserved (16).
AttachmentRequest(server_ip, tcp_port, udp_port, alarm_flag, alarm_number) ==
    <<Len(server_ip)>> \o server_ip \o PackH(tcp_port) \o PackH(udp_port) \o alarm_flag
    \o ljust(alarm_number, 32, 0) \o Zeros(16)

\* "127.0.0.1" and "ALM-1145-1-1761430270350" as ASCII codes.
ServerIp == <<49, 50, 55, 46, 48, 46, 48, 46, 49>>
AlarmNumber ==
    <<65, 76, 77, 45, 49, 49, 52, 53, 45, 49, 45, 49, 55, 54, 49, 52, 51, 48, 50, 55, 48, 51,
      53, 48>>

\* The alarm flags a platform puts into 0x9208: sixteen zero bytes (no alarm id set),
\* and the sign blocks of alarms with the default terminal ids.
AlarmFlags ==
    {Zeros(16)}
    \cup {Sim_alarm_sign(terminal_id, ADASAlarmData(1, 1, 1, 1, timestamp)) :
            terminal_id \in {t \in TerminalIds : Len(t) <= 7}, timestamp \in Nows}

\* The flags of the requests that can arrive: after an alarm of the simulator, the
\* sixteen bytes of the block it has just sent.
RequestFlags ==
    IF pc = "sim-alarm" THEN {Slice(alarm_extra.sign, 0, 16)} ELSE AlarmFlags

\* The request's sequence numbers, and the lengths at which a request is cut short on
\* the way (0 for none).
RequestSeqs == {1, 32126}
Truncations == {0, 19, 64}

Request(alarm_flag, cut) ==
    LET body == AttachmentRequest(ServerIp, 5999, 5999, alarm_flag, AlarmNumber)
    IN  IF cut = 0 THEN body ELSE Slice(body, 0, cut)

Attached(handler, body, seq, ack, file_info, message) ==
    [handler |-> handler, body |-> body, seq |-> seq, ack |-> ack,
     file_info |-> file_info, message |-> message]

\* DC600Simulator._handle_alarm_attachment_command(body, seq), with the general
\* response it sends through send_message.
HandleAlarmAttachmentCommand ==
    /\ pc \in {"alarm-idle", "sim-alarm"}
    /\ \E alarm_flag \in RequestFlags, cut \in Truncations, seq \in RequestSeqs :
          LET body == Request(alarm_flag, cut)
              response == PackH(seq) \o PackH(ALARM_ATTACHMENT_UPLOAD_CMD) \o <<0>>
          IN  IF Len(body) < 70
              THEN /\ attach' = Attached("_handle_alarm_attachment_command", body, seq,
                                         <<>>, <<>>, <<>>)
                   /\ msg_seq' = msg_seq
              ELSE /\ msg_seq' = (msg_seq + 1) % SEQ_MODULUS
                   /\ attach' = Attached("_handle_alarm_attachment_command", body, seq,
                                         response, <<>>,
                                         Sim_build_message(TERMINAL_GENERAL_RESPONSE,
                                                           response, SimPhone, msg_seq'))
    /\ pc' = "attach"
    /\ UNCHANGED <<sessionVars, terminalVars, reasmVars, recvVars, alarm_extra, alarm_id_counter, sent, frame, received, stuffer, counterVars, threadVars, bcdVars>>

\* DC600Device.handle_alarm_attachment_request(body, sequence) of
\* dc600_device_simulator.py, with send_file_info_upload and its send_message.
HandleAlarmAttachmentRequest ==
    /\ pc = "alarm-idle"
    /\ \E alarm_flag \in RequestFlags, cut \in Truncations, seq \in RequestSeqs :
          LET body == Request(alarm_flag, cut)
              server_ip_len == body[1]
              offset == 1 + server_ip_len + 2 + 2
              alarm_info == rstrip(DecodeAsciiIgnore(Slice(body, offset, Len(body))), 0)
              timestamp == extract_timestamp_from_alarm_info(alarm_info)
              file_info == send_file_info_upload_body(seq, timestamp)
          IN  IF Len(body) < 20
              THEN /\ attach' = Attached("handle_alarm_attachment_request", body, seq,
                                         <<>>, <<>>, <<>>)
                   /\ msg_sequence' = msg_sequence
              ELSE /\ msg_sequence' = NextMsgSequence(msg_sequence)
                   /\ attach' = Attached("handle_alarm_attachment_request", body, seq,
                                         <<>>, file_info,
                                         JT808Protocol_build_message(ALARM_ATTACHMENT_INFO,
                                             DevicePhone, file_info, 0, FALSE, msg_sequence))
    /\ pc' = "attach"
    /\ UNCHANGED <<sessionVars, terminalVars, reasmVars, recvVars, alarm_extra, alarm_id_counter, msg_seq, sent, frame, received, stuffer, sequence, seq_num, builder_sequence, threadVars, bcdVars>>

\* DC600Device.listen_for_9208 of test_dc600_protocol.py receiving a 0x9208 frame,
\* followed, when it returns a result, by send_1210_response and its send_message.
ListenFor9208 ==
    /\ pc = "alarm-idle"
    /\ \E alarm_flag \in RequestFlags, cut \in Truncations, seq \in RequestSeqs :
          LET message == JT808Message_build_message(ALARM_ATTACHMENT_UPLOAD_CMD,
                                                    device_id_bytes, seq,
                                                    Request(alarm_flag, cut))
              parsed == JT808Message_parse_message(message)
          IN  /\ parsed # None
              /\ parsed.msg_id = ALARM_ATTACHMENT_UPLOAD_CMD
              /\ LET body == parsed.body
                     ip_len == body[1]
                     offset == 1 + ip_len + 2 + 2
                     flag == Slice(body, offset, offset + 16)
                     alarm_id == flag[14]
                     alarm_type == flag[15]
                     file_info == send_1210_response_body(alarm_id, alarm_type)
                 IN  IF Len(body) < 65 \/ flag = Zeros(16)
                     THEN /\ attach' = Attached("listen_for_9208", body, parsed.sequence,
                                                <<>>, <<>>, <<>>)
                          /\ seq_num' = seq_num
                     ELSE /\ seq_num' = DC600Device_get_next_seq(seq_num)
                          /\ attach' = Attached("listen_for_9208", body, parsed.sequence,
                                                <<>>, file_info,
                                                JT808Message_build_message(
                                                    ALARM_ATTACHMENT_INFO, device_id_bytes,
                                                    seq_num', file_info))
    /\ pc' = "attach"
    /\ UNCHANGED <<sessionVars, terminalVars, reasmVars, recvVars, alarm_extra, alarm_id_counter, msg_seq, sent, frame, received, stuffer, msg_sequence, sequence, builder_sequence, threadVars, bcdVars>>

InitAlarm ==
    /\ pc = "alarm-idle"
    /\ msg_sequence = 0
    /\ sequence = 0
    /\ seq_num = 0
    /\ builder_sequence = 1
    /\ sent = None
    /\ frame = <<>>
    /\ received = None
    /\ stuffer = None
    /\ sequence_lock = "free"
    /\ tpc = <<>>
    /\ tseq = <<>>
    /\ ttmp = <<>>
    /\ issued = <<>>
    /\ wire = <<>>
    /\ sender = None
    /\ bcd = None
    /\ alarm_extra = None
    /\ alarm_id_counter = 1
    /\ msg_seq = 0
    /\ attach = None
    /\ rstream = <<>>
    /\ rbuffer = <<>>
    /\ delivered = <<>>
    /\ assembly = <<>>
    /\ emitted = <<>>
    /\ arrivals = <<>>
    /\ reassembly_error = None
    /\ msg_serial = 0
    /\ client = None
    /\ running = FALSE
    /\ connected = FALSE
    /\ authenticated = FALSE
    /\ auth_code = <<>>
    /\ outbox = {}
    /\ threads = <<>>
    /\ run_pc = "none"
    /\ returned = None
    /\ socket = "none"
    /\ config = None
    /\ receiver = None

NextAlarm ==
    \/ BuildAdasAlarmExtraData
    \/ BuildDsmAlarmExtraData
    \/ SendAdasAlarm
    \/ SendDsmAlarm
    \/ HandleAlarmAttachmentCommand
    \/ HandleAlarmAttachmentRequest
    \/ ListenFor9208
    \/ SendLocationReport
    \/ DeviceSendAdasAlarm
    \/ DeviceSendDsmAlarm

SpecAlarm == InitAlarm /\ [][NextAlarm]_vars

(***************************************************************************)
(* The receive scenario: a byte stream arrives in chunks at a receive loop. *)
(***************************************************************************)
\* A search that returns the last index instead of the first.
FindLast(buffer, start) ==
    LET hits == {k \in (start + 1)..Len(buffer) : buffer[k] = FRAME_DELIMITER}
    IN  IF hits = {} THEN -1 ELSE (CHOOSE k \in hits : \A j \in hits : k >= j) - 1

\* buffer.find(FRAME_DELIMITER, start): the first index from start on, or -1.
Find(buffer, start) ==
    LET hits == {k \in (start + 1)..Len(buffer) : buffer[k] = FRAME_DELIMITER}
    IN  IF hits = {} THEN -1 ELSE (CHOOSE k \in hits : \A j \in hits : k <= j) - 1

\* Message ids of the platform: general response 0x8001, stored multimedia retrieval
\* 0x8802, single multimedia upload 0x8805.
PLATFORM_GENERAL_RESPONSE == 32769
STORED_MULTIMEDIA_RETRIEVAL == 34818
SINGLE_MULTIMEDIA_UPLOAD == 34821

\* DC600Device.handle_server_message(msg) raises for these messages:
\* handle_multimedia_retrieval_request reads body[0..2] (IndexError), and
\* handle_single_multimedia_upload_request unpacks body[0:4] and reads body[4].
handle_server_message_raises(msg) ==
    \/ msg.msg_id = STORED_MULTIMEDIA_RETRIEVAL /\ Len(msg.body) < 3
    \/ msg.msg_id = SINGLE_MULTIMEDIA_UPLOAD /\ Len(msg.body) < 5

\* The inner while loop of DC600Device.receive_messages: st holds buffer, the frames
\* handed to handle_server_message, and running (FALSE once an exception has left the
\* outer loop through `except Exception: break`).
RECURSIVE receive_messages_scan(_)
receive_messages_scan(st) ==
    LET start_idx == Find(st.buffer, 0)
        end_idx == Find(st.buffer, start_idx + 1)
        frame_bytes == Slice(st.buffer, start_idx, end_idx + 1)
        rest == Slice(st.buffer, end_idx + 1, Len(st.buffer))
        msg == JT808Protocol_parse_message(frame_bytes)
    IN  IF start_idx = -1 \/ end_idx = -1 THEN st
        ELSE IF msg.kind = "struct.error" THEN [st EXCEPT !.buffer = rest, !.running = FALSE]
        ELSE IF msg.kind = "None" THEN receive_messages_scan([st EXCEPT !.buffer = rest])
        ELSE IF handle_server_message_raises(msg)
        THEN [st EXCEPT !.buffer = rest, !.running = FALSE]
        ELSE receive_messages_scan([st EXCEPT !.buffer = rest,
                                              !.delivered = Append(@, frame_bytes)])

\* The inner while loop of DC600Simulator._receive_loop with _handle_received_message:
\* a frame parse_message rejects is dropped, every other one is dispatched.
RECURSIVE receive_loop_scan(_)
receive_loop_scan(st) ==
    LET start_idx == Find(st.buffer, 0)
        end_idx == Find(st.buffer, start_idx + 1)
        msg_data == Slice(st.buffer, start_idx, end_idx + 1)
        rest == Slice(st.buffer, end_idx + 1, Len(st.buffer))
        parsed == Sim_parse_message(msg_data)
    IN  IF start_idx = -1 \/ end_idx = -1 THEN st
        ELSE IF parsed.kind = "None" THEN receive_loop_scan([st EXCEPT !.buffer = rest])
        ELSE receive_loop_scan([st EXCEPT !.buffer = rest,
                                          !.delivered = Append(@, msg_data)])

\* The frames the platform sends: general responses (0x8001) to the reports with the
\* sequence numbers 1, 0x7D7E and 3.
MaxStreamFrames == 3
PlatformFrame(k) ==
    PeerFrame(PLATFORM_GENERAL_RESPONSE, device_id_bytes, k,
              IF k = 2 THEN <<ESCAPE_CHAR, FRAME_DELIMITER, 2, 0, 0>> ELSE <<0, k, 2, 0, 0>>,
              0, TRUE)

RECURSIVE PlatformFrames(_)
PlatformFrames(n) == IF n = 0 THEN <<>> ELSE Append(PlatformFrames(n - 1), PlatformFrame(n))

RECURSIVE Concat(_)
Concat(frames) == IF frames = <<>> THEN <<>> ELSE Head(frames) \o Concat(Tail(frames))

\* What precedes the frames in the stream: nothing; the tail of a frame whose opening
\* delimiter was lost; a frame that is malformed for its handler or for parse_message.
Fragments == {Slice(PlatformFrame(3), cut, Len(PlatformFrame(3))) : cut \in {1, 18}}
MalformedFrames ==
    {PeerFrame(STORED_MULTIMEDIA_RETRIEVAL, device_id_bytes, 1, <<>>, 0, TRUE),
     PeerFrame(SINGLE_MULTIMEDIA_UPLOAD, device_id_bytes, 1, <<0, 0, 0, 1>>, 0, TRUE),
     <<FRAME_DELIMITER>> \o Zeros(12) \o <<FRAME_DELIMITER>>,
     [PlatformFrame(1) EXCEPT ![Len(PlatformFrame(1)) - 1] = BitXor(@, 1)]}
Scenarios ==
    {[scenario |-> "frames", before |-> <<>>]}
    \cup {[scenario |-> "fragment", before |-> f] : f \in Fragments}
    \cup {[scenario |-> "malformed", before |-> f] : f \in MalformedFrames}

Loops ==
    {"DC600Device.receive_messages", "DC600Simulator._receive_loop",
     "DC600Device.receive_message", "DC600Terminal.receive_message"}

\* One iteration of the outer loop of DC600Device.receive_messages: recv() returns some
\* of the pending bytes, and the inner loop runs to its end.
ReceiveMessages ==
    /\ pc = "recv"
    /\ receiver.loop = "DC600Device.receive_messages"
    /\ receiver.running
    /\ \E n \in 1..Len(rstream) :
          LET data == SubSeq(rstream, 1, n)
              st == receive_messages_scan([buffer |-> rbuffer \o data,
                                           delivered |-> delivered, running |-> TRUE])
          IN  /\ rstream' = SubSeq(rstream, n + 1, Len(rstream))
              /\ rbuffer' = st.buffer
              /\ delivered' = st.delivered
              /\ receiver' = [receiver EXCEPT !.running = st.running]
    /\ UNCHANGED <<sessionVars, terminalVars, reasmVars, alarmVars, codecVars, counterVars, threadVars, bcdVars>>

\* One iteration of the outer loop of DC600Simulator._receive_loop.
ReceiveLoop ==
    /\ pc = "recv"
    /\ receiver.loop = "DC600Simulator._receive_loop"
    /\ receiver.running
    /\ \E n \in 1..Len(rstream) :
          LET data == SubSeq(rstream, 1, n)
              st == receive_loop_scan([buffer |-> rbuffer \o data,
                                       delivered |-> delivered, running |-> TRUE])
          IN  /\ rstream' = SubSeq(rstream, n + 1, Len(rstream))
              /\ rbuffer' = st.buffer
              /\ delivered' = st.delivered
              /\ receiver' = [receiver EXCEPT !.running = st.running]
    /\ UNCHANGED <<sessionVars, terminalVars, reasmVars, alarmVars, codecVars, counterVars, threadVars, bcdVars>>

\* One iteration of the while loop of DC600Device.receive_message of
\* test_dc600_protocol.py: a chunk is appended to the call's buffer; when the buffer
\* holds a delimited message the call returns it and its buffer is gone.
TestReceiveMessage ==
    /\ pc = "recv"
    /\ receiver.loop = "DC600Device.receive_message"
    /\ \E n \in 1..Len(rstream) :
          LET buffer == rbuffer \o SubSeq(rstream, 1, n)
              start_idx == Find(buffer, 0)
              end_idx == Find(buffer, start_idx + 1)
              message == Slice(buffer, start_idx, end_idx + 1)
          IN  /\ rstream' = SubSeq(rstream, n + 1, Len(rstream))
              /\ IF Len(buffer) >= 13 /\ start_idx >= 0 /\ end_idx > start_idx
                 THEN /\ delivered' = Append(delivered, message)
                      /\ rbuffer' = <<>>
                 ELSE /\ delivered' = delivered
                      /\ rbuffer' = buffer
    /\ UNCHANGED <<sessionVars, terminalVars, reasmVars, receiver, alarmVars, codecVars, counterVars, threadVars, bcdVars>>

\* socket.timeout in DC600Device.receive_message: the peer has nothing more to send,
\* the call returns None and its buffer is gone.
TestReceiveTimeout ==
    /\ pc = "recv"
    /\ receiver.loop = "DC600Device.receive_message"
    /\ rstream = <<>>
    /\ rbuffer # <<>>
    /\ rbuffer' = <<>>
    /\ UNCHANGED <<sessionVars, terminalVars, reasmVars, rstream, delivered, receiver, alarmVars, codecVars, counterVars, threadVars, bcdVars>>

\* One call of DC600Terminal.receive_message over TCP: bytes are read one at a time
\* until the data starts and ends with the delimiter; when the peer has nothing more
\* to send the call times out and returns None.
TerminalReceiveMessage ==
    /\ pc = "recv"
    /\ receiver.loop = "DC600Terminal.receive_message"
    /\ rstream # <<>>
    /\ LET ends == {n \in 2..Len(rstream) :
                       rstream[1] = FRAME_DELIMITER /\ rstream[n] = FRAME_DELIMITER}
           n == IF ends = {} THEN Len(rstream) ELSE CHOOSE k \in ends : \A j \in ends : k <= j
           data == SubSeq(rstream, 1, n)
           result == DC600Protocol_decode_message(data)
       IN  /\ rstream' = SubSeq(rstream, n + 1, Len(rstream))
           /\ delivered' = IF ends # {} /\ result.kind = "msg"
                           THEN Append(delivered, data) ELSE delivered
    /\ UNCHANGED <<sessionVars, terminalVars, reasmVars, rbuffer, receiver, alarmVars, codecVars, counterVars, threadVars, bcdVars>>

InitRecv ==
    /\ pc = "recv"
    /\ msg_sequence = 0
    /\ sequence = 0
    /\ seq_num = 0
    /\ builder_sequence = 1
    /\ sent = None
    /\ frame = <<>>
    /\ received = None
    /\ stuffer = None
    /\ sequence_lock = "free"
    /\ tpc = <<>>
    /\ tseq = <<>>
    /\ ttmp = <<>>
    /\ issued = <<>>
    /\ wire = <<>>
    /\ sender = None
    /\ bcd = None
    /\ alarm_extra = None
    /\ alarm_id_counter = 1
    /\ msg_seq = 0
    /\ attach = None
    /\ rbuffer = <<>>
    /\ delivered = <<>>
    /\ assembly = <<>>
    /\ emitted = <<>>
    /\ arrivals = <<>>
    /\ reassembly_error = None
    /\ msg_serial = 0
    /\ client = None
    /\ running = FALSE
    /\ connected = FALSE
    /\ authenticated = FALSE
    /\ auth_code = <<>>
    /\ outbox = {}
    /\ threads = <<>>
    /\ run_pc = "none"
    /\ returned = None
    /\ socket = "none"
    /\ config = None
    /\ \E loop \in Loops, s \in Scenarios, n \in 1..MaxStreamFrames :
          /\ rstream = s.before \o Concat(PlatformFrames(n))
          /\ receiver = [loop |-> loop, running |-> TRUE, scenario |-> s.scenario,
                         expected |-> PlatformFrames(n)]

NextRecv ==
    \/ ReceiveMessages
    \/ ReceiveLoop
    \/ TestReceiveMessage
    \/ TestReceiveTimeout
    \/ TerminalReceiveMessage

SpecRecv == InitRecv /\ [][NextRecv]_vars

(***************************************************************************)
(* The sub-package scenario: the fragments of multi-packet uploads arrive   *)
(* at the Sub-package Reassembler in any order.                             *)
(***************************************************************************)
MaxArrivals == 5
MultimediaIds == {1, 2}

\* The total_packets argument of send_video_multipacket for each multimedia id.
TotalPackets(multimedia_id) == IF multimedia_id = 1 THEN 3 ELSE 2

\* packet_data of send_video_multipacket: the slice of the video data of packet_no;
\* version 2 is the slice of a retransmission that differs.
PacketData(multimedia_id, packet_no, version) == <<multimedia_id, packet_no, version>>

Fragment(multimedia_id, total_packages, package_no, version) ==
    [multimedia_id |-> multimedia_id, total_packages |-> total_packages,
     package_no |-> package_no, data |-> PacketData(multimedia_id, package_no, version)]

\* The fragments on the way: those of send_video_multipacket for both ids, a
\* retransmission, and fragments that declare another total.
Fragments0801 ==
    {Fragment(m, TotalPackets(m), k, 1) : m \in MultimediaIds, k \in 1..2}
    \cup {Fragment(1, 3, 3, 1), Fragment(1, 3, 1, 2), Fragment(1, 2, 2, 1), Fragment(2, 3, 1, 1)}

EmptyAssembly == [state |-> "Empty", total_packages |-> 0, fragments |-> <<>>]

\* A map that keeps the first write of a package number.
StoreFirstWins(fragments, package_no, data) ==
    [k \in DOMAIN fragments \cup {package_no} |->
        IF k \in DOMAIN fragments THEN fragments[k] ELSE data]

\* The map from package_no to bytes: the last write of a package number wins.
Store(fragments, package_no, data) ==
    [k \in DOMAIN fragments \cup {package_no} |->
        IF k = package_no THEN data ELSE fragments[k]]

\* assemble(): the fragments concatenated by ascending package_no.
RECURSIVE AssembleFrom(_, _)
AssembleFrom(fragments, keys) ==
    IF keys = {} THEN <<>>
    ELSE LET k == CHOOSE x \in keys : \A y \in keys : x <= y
         IN  fragments[k] \o AssembleFrom(fragments, keys \ {k})

assemble(st) == AssembleFrom(st.fragments, DOMAIN st.fragments)

\* A reassembler that checks no total.
NeverInconsistent(st, fragment) == FALSE

\* A fragment is inconsistent when the id is Collecting and its total_packages is not
\* the value recorded at Empty -> Collecting.
Inconsistent(st, fragment) ==
    st.state = "Collecting" /\ fragment.total_packages # st.total_packages

\* The state of an id after a consistent fragment: Empty -> Collecting records
\* total_packages, and the id is Complete when the fragment count equals it.
Collect(st, fragment) ==
    LET total == IF st.state = "Empty" THEN fragment.total_packages ELSE st.total_packages
        fragments == Store(st.fragments, fragment.package_no, fragment.data)
    IN  [state |-> IF Cardinality(DOMAIN fragments) = total THEN "Complete" ELSE "Collecting",
         total_packages |-> total, fragments |-> fragments]

\* A fragment of an id that is not Complete arrives.
ReceiveFragment ==
    /\ pc = "reassembly"
    /\ Len(arrivals) < MaxArrivals
    /\ \E fragment \in Fragments0801 :
          LET m == fragment.multimedia_id
              st == assembly[m]
          IN  /\ st.state # "Complete"
              /\ IF Inconsistent(st, fragment)
                 THEN /\ reassembly_error' = [kind |-> "InconsistentSubPackageCount"]
                      /\ arrivals' = Append(arrivals, [fragment |-> fragment, accepted |-> FALSE])
                      /\ UNCHANGED <<sessionVars, terminalVars, assembly, emitted>>
                 ELSE /\ reassembly_error' = None
                      /\ arrivals' = Append(arrivals, [fragment |-> fragment, accepted |-> TRUE])
                      /\ assembly' = [assembly EXCEPT ![m] = Collect(st, fragment)]
                      /\ emitted' = IF Collect(st, fragment).state = "Complete"
                                    THEN [emitted EXCEPT ![m] = assemble(Collect(st, fragment))]
                                    ELSE emitted
    /\ UNCHANGED <<sessionVars, terminalVars, recvVars, alarmVars, codecVars, counterVars, threadVars, bcdVars>>

InitReassembly ==
    /\ pc = "reassembly"
    /\ msg_sequence = 0
    /\ sequence = 0
    /\ seq_num = 0
    /\ builder_sequence = 1
    /\ sent = None
    /\ frame = <<>>
    /\ received = None
    /\ stuffer = None
    /\ sequence_lock = "free"
    /\ tpc = <<>>
    /\ tseq = <<>>
    /\ ttmp = <<>>
    /\ issued = <<>>
    /\ wire = <<>>
    /\ sender = None
    /\ bcd = None
    /\ alarm_extra = None
    /\ alarm_id_counter = 1
    /\ msg_seq = 0
    /\ attach = None
    /\ rstream = <<>>
    /\ rbuffer = <<>>
    /\ delivered = <<>>
    /\ receiver = None
    /\ assembly = [m \in MultimediaIds |-> EmptyAssembly]
    /\ emitted = [m \in MultimediaIds |-> None]
    /\ arrivals = <<>>
    /\ reassembly_error = None
    /\ msg_serial = 0
    /\ client = None
    /\ running = FALSE
    /\ connected = FALSE
    /\ authenticated = FALSE
    /\ auth_code = <<>>
    /\ outbox = {}
    /\ threads = <<>>
    /\ run_pc = "none"
    /\ returned = None
    /\ socket = "none"
    /\ config = None

NextReassembly == ReceiveFragment

SpecReassembly == InitReassembly /\ [][NextReassembly]_vars

(***************************************************************************)
(* The send scenario: the receive thread and the main thread of            *)
(* DC600Simulator call send_message, which takes no lock.                  *)
(***************************************************************************)
SimThreads == {"receive", "main"}

\* How many calls of send_message one run makes.
MaxSends == 3

\* Calls of send_message that have started.
SendsStarted == Len(wire) + Cardinality({t \in SimThreads : tpc[t] # "idle"})

\* send_message: the read of self.config.msg_seq in (self.config.msg_seq + 1) % 65536
SimLoadMsgSeq ==
    /\ pc = "send"
    /\ SendsStarted < MaxSends
    /\ \E t \in SimThreads :
          /\ tpc[t] = "idle"
          /\ ttmp' = [ttmp EXCEPT ![t] = msg_seq]
          /\ tpc' = [tpc EXCEPT ![t] = "store"]
    /\ UNCHANGED <<sessionVars, terminalVars, reasmVars, recvVars, alarmVars, bcdVars, codecVars, counterVars, sequence_lock, tseq, issued, wire, sender>>

\* send_message: the assignment self.config.msg_seq = ...; tseq keeps the value this
\* call's increment produced.
SimStoreMsgSeq ==
    /\ pc = "send"
    /\ \E t \in SimThreads :
          /\ tpc[t] = "store"
          /\ msg_seq' = (ttmp[t] + 1) % SEQ_MODULUS
          /\ tseq' = [tseq EXCEPT ![t] = msg_seq']
          /\ tpc' = [tpc EXCEPT ![t] = "build"]
    /\ UNCHANGED <<sessionVars, terminalVars, reasmVars, recvVars, alarm_extra, alarm_id_counter, attach, bcdVars, codecVars, counterVars, sequence_lock, ttmp, issued, wire, sender>>

\* send_message: build_message(msg_id, body, phone_number, self.config.msg_seq), which
\* reads the counter again, and sendall; the receive thread sends a general response,
\* the main thread a heartbeat.
SimSendMessage ==
    /\ pc = "send"
    /\ \E t \in SimThreads :
          /\ tpc[t] = "build"
          /\ frame' = IF t = "receive"
                      THEN Sim_build_message(TERMINAL_GENERAL_RESPONSE, <<0, 1, 128, 1, 0>>,
                                             SimPhone, msg_seq)
                      ELSE Sim_build_message(TERMINAL_HEARTBEAT, <<>>, SimPhone, msg_seq)
          /\ wire' = Append(wire, [thread |-> t, seq |-> msg_seq, own |-> tseq[t],
                                   message |-> frame'])
          /\ tpc' = [tpc EXCEPT ![t] = "idle"]
    /\ UNCHANGED <<sessionVars, terminalVars, reasmVars, recvVars, alarmVars, bcdVars, pc, sent, received, stuffer, counterVars, sequence_lock, tseq, ttmp, issued, sender>>

InitSend ==
    /\ pc = "send"
    /\ msg_sequence = 0
    /\ sequence = 0
    /\ seq_num = 0
    /\ builder_sequence = 1
    /\ sent = None
    /\ frame = <<>>
    /\ received = None
    /\ stuffer = None
    /\ sequence_lock = "free"
    /\ tpc = [t \in SimThreads |-> "idle"]
    /\ tseq = [t \in SimThreads |-> 0]
    /\ ttmp = [t \in SimThreads |-> 0]
    /\ issued = <<>>
    /\ wire = <<>>
    /\ sender = None
    /\ bcd = None
    /\ alarm_extra = None
    /\ alarm_id_counter = 1
    /\ msg_seq \in {0, 125, 65533}
    /\ attach = None
    /\ rstream = <<>>
    /\ rbuffer = <<>>
    /\ delivered = <<>>
    /\ receiver = None
    /\ assembly = <<>>
    /\ emitted = <<>>
    /\ arrivals = <<>>
    /\ reassembly_error = None
    /\ msg_serial = 0
    /\ client = None
    /\ running = FALSE
    /\ connected = FALSE
    /\ authenticated = FALSE
    /\ auth_code = <<>>
    /\ outbox = {}
    /\ threads = <<>>
    /\ run_pc = "none"
    /\ returned = None
    /\ socket = "none"
    /\ config = None

NextSend ==
    \/ SimLoadMsgSeq
    \/ SimStoreMsgSeq
    \/ SimSendMessage

SpecSend == InitSend /\ [][NextSend]_vars

(***************************************************************************)
(* Authentication: the authenticate() methods of the four clients and the  *)
(* general-response handlers of the two simulators.  A response is None    *)
(* (timeout, or a frame the parser rejects) or the parsed message: its     *)
(* message id and body.                                                    *)
(***************************************************************************)
TERMINAL_REGISTRATION == 256
TERMINAL_AUTHENTICATION == 258
PLATFORM_TERMINAL_REGISTRATION_RESPONSE == 33024

\* dc600_device_simulator.py, send_platform_general_response: the layout of a
\* general response body (response serial, response message id, result).
general_response_body(response_seq, response_msg_id, result) ==
    PackH(response_seq) \o PackH(response_msg_id) \o <<result>>

\* test_dc600_protocol.py, DC600Device.authenticate: reads body[2].
TestDevice_authenticate(self, response) ==
    IF /\ response # None
       /\ response.msg_id = PLATFORM_GENERAL_RESPONSE
       /\ Len(response.body) >= 3
    THEN IF response.body[3] = 0
         THEN [authenticated |-> TRUE, value |-> "True"]
         ELSE [authenticated |-> self.authenticated, value |-> "False"]
    ELSE [authenticated |-> self.authenticated, value |-> "False"]

\* dc600multimedia.py, DC600Device.authenticate: reads body[2]; no auth code
\* and no valid response both count as success.
MultimediaDevice_authenticate(self, response) ==
    IF Len(self.auth_code) = 0
    THEN [authenticated |-> TRUE, value |-> "True", sends |-> FALSE]
    ELSE IF /\ response # None
            /\ response.msg_id = PLATFORM_GENERAL_RESPONSE
            /\ Len(response.body) >= 3
         THEN IF response.body[3] = 0
              THEN [authenticated |-> TRUE, value |-> "True", sends |-> TRUE]
              ELSE [authenticated |-> self.authenticated, value |-> "False", sends |-> TRUE]
         ELSE [authenticated |-> TRUE, value |-> "True", sends |-> TRUE]

\* dc600_terminal_test.py, DC600Terminal.authenticate: reads response_body[4].
DC600Terminal_authenticate(self, response) ==
    IF Len(self.auth_code) = 0
    THEN [authenticated |-> self.authenticated, value |-> "False", sends |-> FALSE]
    ELSE IF response # None /\ response.msg_id = PLATFORM_GENERAL_RESPONSE
         THEN IF Len(response.body) < 5
              THEN [authenticated |-> self.authenticated, value |-> "IndexError", sends |-> TRUE]
              ELSE IF response.body[5] = 0
                   THEN [authenticated |-> TRUE, value |-> "True", sends |-> TRUE]
                   ELSE [authenticated |-> self.authenticated, value |-> "False", sends |-> TRUE]
         ELSE [authenticated |-> self.authenticated, value |-> "False", sends |-> TRUE]

\* dc600_simulator.py, DC600Simulator.authenticate: authenticated is set as
\* soon as send_message reports success.
Sim_authenticate(self, send_ok) ==
    IF Len(self.auth_code) = 0
    THEN [authenticated |-> self.authenticated, value |-> "False", sends |-> FALSE]
    ELSE [authenticated |-> (IF send_ok THEN TRUE ELSE self.authenticated),
          value |-> (IF send_ok THEN "True" ELSE "False"), sends |-> send_ok]

\* A handler that takes the success of any message for the authentication's.
handle_general_response_any_id(body) ==
    /\ Len(body) >= 5
    /\ body[5] = 0

\* dc600_device_simulator.py, DC600Device.handle_general_response: whether the
\* body makes the device authenticated (and start its periodic tasks).
handle_general_response(body) ==
    /\ Len(body) >= 5
    /\ UnpackH(Slice(body, 2, 4)) = TERMINAL_AUTHENTICATION
    /\ body[5] = 0

AuthCode == <<52, 57>>
AuthCodes == {<<>>, AuthCode}
ResponseSerials == {1, 258}
ResponseIds == {TERMINAL_AUTHENTICATION, TERMINAL_HEARTBEAT, TERMINAL_REGISTRATION}
ResultCodes == 0..2
AuthResponses ==
    {None}
    \cup {[msg_id |-> m, body |-> general_response_body(s, i, r)] :
            m \in {PLATFORM_GENERAL_RESPONSE, PLATFORM_TERMINAL_REGISTRATION_RESPONSE},
            s \in ResponseSerials, i \in ResponseIds, r \in ResultCodes}
    \cup {[msg_id |-> PLATFORM_GENERAL_RESPONSE, body |-> b] : b \in {<<>>, <<0, 1, 0>>, <<0, 1, 1, 2>>}}

AuthSelf == [auth_code |-> auth_code, authenticated |-> authenticated]

AuthRequest == [msg_id |-> TERMINAL_AUTHENTICATION, body |-> auth_code]

\* One authenticate() call of a client that waits for the response itself.
Authenticate(who, out, response) ==
    /\ pc = "auth-idle"
    /\ pc' = "auth-done"
    /\ client' = who
    /\ authenticated' = out.authenticated
    /\ outbox' = IF out.sends THEN outbox \cup {AuthRequest} ELSE outbox
    /\ returned' = [call |-> "authenticate", response |-> response, value |-> out.value]
    /\ UNCHANGED <<running, connected, auth_code, threads, run_pc, socket, config>>
    /\ UNCHANGED <<sent, frame, received, stuffer>>
    /\ UNCHANGED <<counterVars, threadVars, bcdVars, alarmVars, recvVars, reasmVars, terminalVars>>

TestAuthenticate ==
    \E response \in AuthResponses :
        Authenticate("test_dc600_protocol",
                     TestDevice_authenticate(AuthSelf, response) @@ [sends |-> TRUE], response)

MultimediaAuthenticate ==
    \E response \in AuthResponses :
        Authenticate("dc600multimedia", MultimediaDevice_authenticate(AuthSelf, response), response)

TerminalAuthenticate ==
    \E response \in AuthResponses :
        Authenticate("dc600_terminal_test", DC600Terminal_authenticate(AuthSelf, response), response)

\* dc600_simulator: authenticate() returns after the send; the response, if
\* any, reaches _handle_platform_general_response, which only logs.
SimAuthenticate ==
    \E send_ok \in BOOLEAN, response \in AuthResponses :
        Authenticate("dc600_simulator", Sim_authenticate(AuthSelf, send_ok), response)

InitAuth ==
    /\ pc = "auth-idle"
    /\ msg_sequence = 0
    /\ sequence = 0
    /\ seq_num = 0
    /\ builder_sequence = 1
    /\ sent = None
    /\ frame = <<>>
    /\ received = None
    /\ stuffer = None
    /\ sequence_lock = "free"
    /\ tpc = <<>>
    /\ tseq = <<>>
    /\ ttmp = <<>>
    /\ issued = <<>>
    /\ wire = <<>>
    /\ sender = None
    /\ bcd = None
    /\ alarm_extra = None
    /\ alarm_id_counter = 1
    /\ msg_seq = 0
    /\ attach = None
    /\ rstream = <<>>
    /\ rbuffer = <<>>
    /\ delivered = <<>>
    /\ receiver = None
    /\ assembly = <<>>
    /\ emitted = <<>>
    /\ arrivals = <<>>
    /\ reassembly_error = None
    /\ msg_serial = 0
    /\ client = None
    /\ running = FALSE
    /\ connected = FALSE
    /\ authenticated = FALSE
    /\ auth_code \in AuthCodes
    /\ outbox = {}
    /\ threads = <<>>
    /\ run_pc = "none"
    /\ returned = None
    /\ socket = "none"
    /\ config = None

NextAuth ==
    \/ TestAuthenticate
    \/ MultimediaAuthenticate
    \/ TerminalAuthenticate
    \/ SimAuthenticate

SpecAuth == InitAuth /\ [][NextAuth]_vars

(***************************************************************************)
(* dc600_device_simulator.py: the session of DC600Device.  run() connects, *)
(* starts the receive thread, registers, waits for the authentication and  *)
(* then idles until the connection ends; the receive thread handles the    *)
(* platform's messages; the periodic threads are started by                *)
(* start_periodic_tasks.  threads counts the live threads of every kind;   *)
(* outbox records every message passed to sendall together with the value  *)
(* of authenticated at that moment and, for the registration and the       *)
(* authentication message, the number of messages handled before it.       *)
(***************************************************************************)
MaxHandled == 2

DeviceConfigs == {[enable_alarms |-> b] : b \in BOOLEAN}
NoThreads == [heartbeat |-> 0, location |-> 0, alarm |-> 0, receive |-> 0]

\* The platform's messages the session depends on.
RegistrationResponses ==
    {[msg_id |-> PLATFORM_TERMINAL_REGISTRATION_RESPONSE, body |-> b] :
        b \in {<<0, 1, 0>> \o AuthCode, <<0, 1, 0>>, <<0, 1, 1>> \o AuthCode}}
GeneralResponses ==
    {[msg_id |-> PLATFORM_GENERAL_RESPONSE, body |-> general_response_body(2, i, r)] :
        i \in {TERMINAL_AUTHENTICATION, TERMINAL_HEARTBEAT}, r \in 0..1}
      \ {[msg_id |-> PLATFORM_GENERAL_RESPONSE, body |-> general_response_body(2, TERMINAL_HEARTBEAT, 1)]}
DeviceServerMessages == RegistrationResponses \cup GeneralResponses

\* handle_registration_response: the auth code taken from a successful answer
\* that carries one, else None (nothing is stored and nothing is sent).
handle_registration_response(body) ==
    IF Len(body) >= 3 /\ body[3] = 0 /\ Len(body) > 3
    THEN SelectSeq(Slice(body, 3, Len(body)), LAMBDA b : b < 128)
    ELSE None

\* The loop test of send_heartbeat_loop, send_location_loop, receive_messages
\* and of the idle loop of run.
LoopContinues == running /\ connected

\* disconnect: the fields it leaves behind.
disconnect_keeps_connection ==
    [running |-> FALSE, connected |-> connected, socket |-> socket]
disconnect ==
    [running |-> FALSE, connected |-> FALSE,
     socket |-> IF socket = "none" THEN "none" ELSE "closed"]

\* start_periodic_tasks: one more heartbeat and location thread, and one more
\* alarm thread when the configuration enables alarms.
start_periodic_tasks(th) ==
    [th EXCEPT !.heartbeat = @ + 1, !.location = @ + 1,
               !.alarm = @ + (IF config.enable_alarms THEN 1 ELSE 0)]

\* send_message: sendall succeeds on an open socket; the failure is caught.
Sendall(box, msg_id, kind, auth, handled) ==
    IF socket = "open"
    THEN box \cup {[msg_id |-> msg_id, kind |-> kind, authenticated |-> auth, handled |-> handled]}
    ELSE box

DeviceUnchanged ==
    UNCHANGED <<codecVars, counterVars, threadVars, bcdVars, alarmVars, reasmVars, terminalVars,
                rstream, rbuffer, receiver, client, returned, config>>

\* run: connect() succeeds or fails.
RunConnect ==
    /\ run_pc = "start"
    /\ \E ok \in BOOLEAN :
          /\ connected' = ok
          /\ socket' = IF ok THEN "open" ELSE "unconnected"
          /\ run_pc' = IF ok THEN "connected" ELSE "finally"
    /\ UNCHANGED <<running, authenticated, auth_code, outbox, threads, delivered>>
    /\ DeviceUnchanged

\* run: running = True and the receive thread is started.
RunStartReceive ==
    /\ run_pc = "connected"
    /\ running' = TRUE
    /\ threads' = [threads EXCEPT !.receive = @ + 1]
    /\ run_pc' = "register"
    /\ UNCHANGED <<connected, authenticated, auth_code, outbox, socket, delivered>>
    /\ DeviceUnchanged

\* run: register() sends 0x0100; a failed send ends run.
RunRegister ==
    /\ run_pc = "register"
    /\ \E ok \in BOOLEAN :
          /\ outbox' = IF ok THEN Sendall(outbox, TERMINAL_REGISTRATION, "register",
                                          authenticated, Len(delivered))
                       ELSE outbox
          /\ run_pc' = IF ok /\ socket = "open" THEN "wait-auth" ELSE "finally"
    /\ UNCHANGED <<running, connected, authenticated, auth_code, threads, socket, delivered>>
    /\ DeviceUnchanged

\* run: the wait for authenticated ends, by success or by the 30 s timeout.
RunWaitAuthentication ==
    /\ run_pc = "wait-auth"
    /\ run_pc' = IF authenticated THEN "main-loop" ELSE "finally"
    /\ UNCHANGED <<running, connected, authenticated, auth_code, outbox, threads, socket, delivered>>
    /\ DeviceUnchanged

\* run: the idle loop ends when its test fails.
RunMainLoop ==
    /\ run_pc = "main-loop"
    /\ ~LoopContinues
    /\ run_pc' = "finally"
    /\ UNCHANGED <<running, connected, authenticated, auth_code, outbox, threads, socket, delivered>>
    /\ DeviceUnchanged

\* run: KeyboardInterrupt or another exception anywhere inside the try block.
RunInterrupt ==
    /\ run_pc \in {"connected", "register", "wait-auth", "main-loop"}
    /\ run_pc' = "finally"
    /\ UNCHANGED <<running, connected, authenticated, auth_code, outbox, threads, socket, delivered>>
    /\ DeviceUnchanged

\* run: finally: self.disconnect().
RunFinally ==
    /\ run_pc = "finally"
    /\ running' = disconnect.running
    /\ connected' = disconnect.connected
    /\ socket' = disconnect.socket
    /\ run_pc' = "done"
    /\ UNCHANGED <<authenticated, auth_code, outbox, threads, delivered>>
    /\ DeviceUnchanged

\* receive_messages: one message is parsed and handled by handle_server_message.
ReceiveServerMessage ==
    /\ threads.receive > 0
    /\ socket # "none"
    /\ Len(delivered) < MaxHandled
    /\ \E m \in DeviceServerMessages :
          /\ delivered' = Append(delivered, m)
          /\ IF m.msg_id = PLATFORM_TERMINAL_REGISTRATION_RESPONSE
             THEN LET code == handle_registration_response(m.body) IN
                  /\ auth_code' = IF code = None THEN auth_code ELSE code
                  /\ outbox' = IF code # None /\ Len(code) > 0
                               THEN Sendall(outbox, TERMINAL_AUTHENTICATION, "authenticate",
                                            authenticated, Len(delivered) + 1)
                               ELSE outbox
                  /\ UNCHANGED <<authenticated, threads>>
             ELSE /\ authenticated' = (authenticated \/ handle_general_response(m.body))
                  /\ threads' = IF handle_general_response(m.body)
                                THEN start_periodic_tasks(threads) ELSE threads
                  /\ UNCHANGED <<auth_code, outbox>>
    /\ UNCHANGED <<running, connected, run_pc, socket>>
    /\ DeviceUnchanged

\* receive_messages: recv returns no data: the server closed the connection.
ReceiveServerClosed ==
    /\ threads.receive > 0
    /\ LoopContinues
    /\ connected' = FALSE
    /\ threads' = [threads EXCEPT !.receive = @ - 1]
    /\ UNCHANGED <<running, authenticated, auth_code, outbox, run_pc, socket, delivered>>
    /\ DeviceUnchanged

\* receive_messages: the loop test fails, or recv raises on the closed socket.
ReceiveExit ==
    /\ threads.receive > 0
    /\ ~LoopContinues
    /\ threads' = [threads EXCEPT !.receive = @ - 1]
    /\ UNCHANGED <<running, connected, authenticated, auth_code, outbox, run_pc, socket, delivered>>
    /\ DeviceUnchanged

\* One iteration of a periodic loop, or its end when the loop test fails.
PeriodicIterate(kind, msg_id, continues) ==
    /\ threads[kind] > 0
    /\ IF continues
       THEN /\ outbox' = IF authenticated
                         THEN Sendall(outbox, msg_id, kind, authenticated, 0)
                         ELSE outbox
            /\ UNCHANGED threads
       ELSE /\ threads' = [threads EXCEPT ![kind] = @ - 1]
            /\ UNCHANGED outbox
    /\ UNCHANGED <<running, connected, authenticated, auth_code, run_pc, socket, delivered>>
    /\ DeviceUnchanged

\* send_heartbeat_loop
HeartbeatIterate == PeriodicIterate("heartbeat", TERMINAL_HEARTBEAT, LoopContinues)

\* send_location_loop
LocationIterate == PeriodicIterate("location", LOCATION_REPORT, LoopContinues)

\* alarm_simulation_loop: its test also reads authenticated.
AlarmIterate == PeriodicIterate("alarm", LOCATION_REPORT, LoopContinues /\ authenticated)

InitDevice ==
    /\ pc = "device"
    /\ msg_sequence = 0
    /\ sequence = 0
    /\ seq_num = 0
    /\ builder_sequence = 1
    /\ sent = None
    /\ frame = <<>>
    /\ received = None
    /\ stuffer = None
    /\ sequence_lock = "free"
    /\ tpc = <<>>
    /\ tseq = <<>>
    /\ ttmp = <<>>
    /\ issued = <<>>
    /\ wire = <<>>
    /\ sender = None
    /\ bcd = None
    /\ alarm_extra = None
    /\ alarm_id_counter = 1
    /\ msg_seq = 0
    /\ attach = None
    /\ rstream = <<>>
    /\ rbuffer = <<>>
    /\ delivered = <<>>
    /\ receiver = None
    /\ assembly = <<>>
    /\ emitted = <<>>
    /\ arrivals = <<>>
    /\ reassembly_error = None
    /\ msg_serial = 0
    /\ client = None
    /\ running = FALSE
    /\ connected = FALSE
    /\ authenticated = FALSE
    /\ auth_code = <<>>
    /\ outbox = {}
    /\ threads = NoThreads
    /\ run_pc = "start"
    /\ returned = None
    /\ socket = "none"
    /\ config \in DeviceConfigs

NextDevice ==
    \/ RunConnect
    \/ RunStartReceive
    \/ RunRegister
    \/ RunWaitAuthentication
    \/ RunMainLoop
    \/ RunInterrupt
    \/ RunFinally
    \/ ReceiveServerMessage
    \/ ReceiveServerClosed
    \/ ReceiveExit
    \/ HeartbeatIterate
    \/ LocationIterate
    \/ AlarmIterate

SpecDevice == InitDevice /\ [][NextDevice]_vars

(***************************************************************************)
(* Responses to the platform's requests: handle_incoming_message of        *)
(* dc600_terminal_test.py, _handle_set_parameters and                      *)
(* _handle_query_parameters of dc600_simulator.py, and                     *)
(* handle_set_terminal_parameters of dc600_device_simulator.py.  A request *)
(* is its message id, its serial number and its body; the response is the  *)
(* message id and body handed to send_message, or None.                    *)
(***************************************************************************)
CHECK_PARAMETER_RESPONSE == 260
CHECK_ATTRIBUTE_RESPONSE == 263
CAMERA_TAKEN_RESPONSE == 2053
PARAMETER_SETTING == 33027
CHECK_PARAMETER == 33028
CHECK_ATTRIBUTE == 33031
TEXT_INFO == 33536
CAMERA_COMMAND == 34817
TERMINAL_CONTROL == 33029

IndexError == [kind |-> "IndexError"]

\* DC600Terminal.send_parameter_response: the response serial field is taken
\* from protocol.msg_serial, the serial of the terminal's own last message.
send_parameter_response(own_serial) ==
    PackH(own_serial) \o <<3>>
    \o PackI(1) \o <<4>> \o PackI(30)
    \o PackI(85) \o <<4>> \o PackI(120)
    \o PackI(86) \o <<4>> \o PackI(10)

\* DC600Terminal.send_camera_response
send_camera_response(command_serial) ==
    PackH(command_serial) \o <<0>> \o PackH(2) \o PackI(12345) \o PackI(12346)

\* DC600Terminal.send_attribute_response: the body carries no serial field.
send_attribute_response ==
    PackH(1) \o <<83, 84, 65, 82, 84>>
    \o <<68, 67, 54, 48, 48>> \o Zeros(15)
    \o <<84, 69, 83, 84, 48, 48, 49>>
    \o DC600Protocol_encode_bcd(<<1, 2, 3, 4, 5, 6, 7, 8, 9, 0, 1, 2, 3, 4, 5, 6, 7, 8, 9, 0>>, 10)
    \o <<6, 118, 49, 46, 48, 46, 48>>
    \o <<6, 118, 50, 46, 48, 46, 53>>
    \o <<3, 1>>

\* DC600Terminal.handle_incoming_message: the message it sends for a request.
handle_incoming_message(msg_id, serial, body, own_serial) ==
    IF msg_id = PLATFORM_GENERAL_RESPONSE
    THEN IF Len(body) < 5 THEN IndexError ELSE None
    ELSE IF msg_id = CHECK_ATTRIBUTE
    THEN [msg_id |-> CHECK_ATTRIBUTE_RESPONSE, body |-> send_attribute_response]
    ELSE IF msg_id = CHECK_PARAMETER
    THEN [msg_id |-> CHECK_PARAMETER_RESPONSE, body |-> send_parameter_response(own_serial)]
    ELSE IF msg_id = TEXT_INFO /\ Len(body) = 0
    THEN IndexError
    ELSE IF msg_id = CAMERA_COMMAND
    THEN [msg_id |-> CAMERA_TAKEN_RESPONSE, body |-> send_camera_response(serial)]
    ELSE [msg_id |-> TERMINAL_GENERAL_RESPONSE, body |-> general_response_body(serial, msg_id, 0)]

\* DC600Simulator._handle_set_parameters and _handle_query_parameters
Sim_handle_request(msg_id, seq) ==
    IF msg_id = PARAMETER_SETTING
    THEN [msg_id |-> TERMINAL_GENERAL_RESPONSE, body |-> general_response_body(seq, PARAMETER_SETTING, 0)]
    ELSE IF msg_id = CHECK_PARAMETER
    THEN [msg_id |-> CHECK_PARAMETER_RESPONSE, body |-> PackH(seq) \o <<0>>]
    ELSE None

\* dc600_device_simulator.DC600Device.handle_set_terminal_parameters: its
\* answer, send_platform_general_response(sequence, SET_TERMINAL_PARAMETERS, 0);
\* an empty body is dropped.  The parameters are parsed for the log only.
Device_handle_request(msg_id, seq, body) ==
    IF msg_id = PARAMETER_SETTING /\ Len(body) >= 1
    THEN [msg_id |-> TERMINAL_GENERAL_RESPONSE, body |-> general_response_body(seq, PARAMETER_SETTING, 0)]
    ELSE None

RequestIds ==
    {PARAMETER_SETTING, CHECK_PARAMETER, CHECK_ATTRIBUTE, TEXT_INFO, CAMERA_COMMAND,
     TERMINAL_CONTROL, PLATFORM_GENERAL_RESPONSE}
RequestSerials == {0, 1, 2, 258, 65535}
RequestBodies == {<<>>, <<0, 72, 105>>, general_response_body(1, TERMINAL_HEARTBEAT, 0)}
Requests == {[msg_id |-> m, serial |-> s, body |-> b] : m \in RequestIds, s \in RequestSerials, b \in RequestBodies}

\* The handler of one client answers one request.
Respond(who, request, response) ==
    /\ pc = "request"
    /\ pc' = "responded"
    /\ client' = who
    /\ returned' = [call |-> "handle", request |-> request, response |-> response]
    /\ outbox' = IF response \in {None, IndexError} THEN outbox ELSE outbox \cup {response}
    /\ UNCHANGED <<running, connected, authenticated, auth_code, threads, run_pc, socket, config>>
    /\ UNCHANGED <<sent, frame, received, stuffer>>
    /\ UNCHANGED <<counterVars, threadVars, bcdVars, alarmVars, recvVars, reasmVars>>

\* dc600_terminal_test: encode_message advances msg_serial for the response.
TerminalHandleIncoming ==
    \E request \in Requests :
        LET response == handle_incoming_message(request.msg_id, request.serial, request.body, msg_serial) IN
        /\ Respond("dc600_terminal_test", request, response)
        /\ msg_serial' = IF response \in {None, IndexError} THEN msg_serial
                         ELSE (msg_serial + 1) % 65536

SimHandleRequest ==
    \E request \in Requests :
        /\ Respond("dc600_simulator", request, Sim_handle_request(request.msg_id, request.serial))
        /\ UNCHANGED msg_serial

DeviceHandleRequest ==
    \E request \in Requests :
        /\ Respond("dc600_device_simulator", request, Device_handle_request(request.msg_id, request.serial, request.body))
        /\ UNCHANGED msg_serial

InitResponse ==
    /\ pc = "request"
    /\ msg_sequence = 0
    /\ sequence = 0
    /\ seq_num = 0
    /\ builder_sequence = 1
    /\ sent = None
    /\ frame = <<>>
    /\ received = None
    /\ stuffer = None
    /\ sequence_lock = "free"
    /\ tpc = <<>>
    /\ tseq = <<>>
    /\ ttmp = <<>>
    /\ issued = <<>>
    /\ wire = <<>>
    /\ sender = None
    /\ bcd = None
    /\ alarm_extra = None
    /\ alarm_id_counter = 1
    /\ msg_seq = 0
    /\ attach = None
    /\ rstream = <<>>
    /\ rbuffer = <<>>
    /\ delivered = <<>>
    /\ receiver = None
    /\ assembly = <<>>
    /\ emitted = <<>>
    /\ arrivals = <<>>
    /\ reassembly_error = None
    /\ msg_serial \in 0..MaxSerial
    /\ client = None
    /\ running = FALSE
    /\ connected = FALSE
    /\ authenticated = FALSE
    /\ auth_code = <<>>
    /\ outbox = {}
    /\ threads = <<>>
    /\ run_pc = "none"
    /\ returned = None
    /\ socket = "none"
    /\ config = None

NextResponse ==
    \/ TerminalHandleIncoming
    \/ SimHandleRequest
    \/ DeviceHandleRequest

SpecResponse == InitResponse /\ [][NextResponse]_vars

(***************************************************************************)
(* dc600multimedia.py: DC600Device.send_video_multipacket.  The main       *)
(* thread sends the sub-packages one by one and waits for a response after *)
(* the last; the heartbeat thread started before the upload sends through  *)
(* the same encoder.  wire holds the frames passed to the socket.          *)
(***************************************************************************)
MaxPackets == 3
MaxHeartbeats == 1
packet_size == 1024
MULTIMEDIA_UPLOAD_RESPONSE == 34816
VideoPatternLen == 1104
VideoRepeat == 100

\* b'VIDEO_DATA_'
VideoTag == <<86, 73, 68, 69, 79, 95, 68, 65, 84, 65, 95>>

\* Byte i (from 0) of b'\x00\x00\x00\x01' + b'VIDEO_DATA_' * 100, repeated.
VideoByte(i) ==
    LET j == i % VideoPatternLen
    IN  IF j < 3 THEN 0
        ELSE IF j = 3 THEN 1
        ELSE VideoTag[((j - 4) % Len(VideoTag)) + 1]

\* video_data = (pattern * 100)[:packet_size * total_packets]
video_data(total_packets) ==
    [i \in 1..Min(packet_size * total_packets, VideoPatternLen * VideoRepeat) |-> VideoByte(i - 1)]

\* The 28 bytes of location data that follow the multimedia header.
video_location_data(now) ==
    PackI(0) \o PackI(2) \o PackI(31230416) \o PackI(121473701)
    \o PackH(10) \o PackH(0) \o PackH(0) \o encode_bcd_time(now)

\* The body of sub-package packet_no.
video_packet_body(multimedia_id, now, data, packet_no) ==
    LET start_idx == (packet_no - 1) * packet_size
        end_idx == Min(packet_no * packet_size, Len(data))
    IN  PackI(multimedia_id) \o <<2, 4, 1, 1>> \o video_location_data(now)
        \o Slice(data, start_idx, end_idx)

VideoUnchanged ==
    UNCHANGED <<sent, frame, received, stuffer, msg_sequence, seq_num, builder_sequence,
                sequence_lock, tpc, tseq, ttmp, issued, sender,
                bcdVars, alarmVars, recvVars, reasmVars, terminalVars,
                client, running, connected, authenticated, auth_code, outbox, threads,
                run_pc, socket, config>>

\* One iteration of the loop: build the body, send_message, and move on.
VideoSendPacket ==
    /\ pc = "video"
    /\ LET call == returned
           seq == DC600Message_get_next_sequence(sequence)
           body == video_packet_body(call.multimedia_id, call.now,
                                     video_data(call.total_packets), call.packet_no)
       IN  /\ sequence' = seq
           /\ wire' = Append(wire, DC600Message_encode_message(MULTIMEDIA_DATA_UPLOAD, body,
                                       DevicePhone, TRUE, call.total_packets, call.packet_no, seq))
           /\ IF call.packet_no = call.total_packets
              THEN /\ pc' = "video-wait"
                   /\ returned' = call
              ELSE /\ pc' = "video"
                   /\ returned' = [call EXCEPT !.packet_no = @ + 1]
    /\ VideoUnchanged

\* receive_response(timeout=5.0) after the last packet; every outcome returns True.
VideoReceiveResponse ==
    /\ pc = "video-wait"
    /\ \E response \in {None} \cup {[msg_id |-> m] : m \in {MULTIMEDIA_UPLOAD_RESPONSE, PLATFORM_GENERAL_RESPONSE}} :
          returned' = [returned EXCEPT !.response = response, !.value = TRUE,
                                       !.waited_after = Len(wire)]
    /\ pc' = "video-done"
    /\ UNCHANGED <<sequence, wire>>
    /\ VideoUnchanged

\* heartbeat_loop of start_heartbeat_thread: send_heartbeat while the upload runs.
VideoHeartbeat ==
    /\ pc \in {"video", "video-wait"}
    /\ authenticated
    /\ returned.heartbeats < MaxHeartbeats
    /\ LET seq == DC600Message_get_next_sequence(sequence)
       IN  /\ sequence' = seq
           /\ wire' = Append(wire, DC600Message_encode_message(TERMINAL_HEARTBEAT, <<>>,
                                       DevicePhone, FALSE, 1, 1, seq))
    /\ returned' = [returned EXCEPT !.heartbeats = @ + 1]
    /\ UNCHANGED pc
    /\ VideoUnchanged

SequencesBefore == {0, 7, 65532}

InitVideo ==
    /\ pc = "video"
    /\ msg_sequence = 0
    /\ sequence \in SequencesBefore
    /\ seq_num = 0
    /\ builder_sequence = 1
    /\ sent = None
    /\ frame = <<>>
    /\ received = None
    /\ stuffer = None
    /\ sequence_lock = "free"
    /\ tpc = <<>>
    /\ tseq = <<>>
    /\ ttmp = <<>>
    /\ issued = <<>>
    /\ wire = <<>>
    /\ sender = None
    /\ bcd = None
    /\ alarm_extra = None
    /\ alarm_id_counter = 1
    /\ msg_seq = 0
    /\ attach = None
    /\ rstream = <<>>
    /\ rbuffer = <<>>
    /\ delivered = <<>>
    /\ receiver = None
    /\ assembly = <<>>
    /\ emitted = <<>>
    /\ arrivals = <<>>
    /\ reassembly_error = None
    /\ msg_serial = 0
    /\ client = None
    /\ running = FALSE
    /\ connected = FALSE
    /\ authenticated \in BOOLEAN
    /\ auth_code = <<>>
    /\ outbox = {}
    /\ threads = <<>>
    /\ run_pc = "none"
    /\ returned \in {[call |-> "send_video_multipacket", multimedia_id |-> m, now |-> now, total_packets |-> n, packet_no |-> 1, heartbeats |-> 0, response |-> None, value |-> None, waited_after |-> 0] : m \in {1, 1000}, now \in Nows, n \in 1..MaxPackets}
    /\ socket = "none"
    /\ config = None

NextVideo ==
    \/ VideoSendPacket
    \/ VideoReceiveResponse
    \/ VideoHeartbeat

SpecVideo == InitVideo /\ [][NextVideo]_vars

(***************************************************************************)
(* dc600_device_simulator.py: DC600Device.send_message called by several   *)
(* threads.  build_message takes the sequence number under sequence_lock   *)
(* (get_next_sequence as a whole); sendall is a later step of the same     *)
(* thread, and no lock spans the two.  issued holds the numbers in the     *)
(* order they were assigned, wire the frames in the order of sendall.      *)
(***************************************************************************)
\* send_message: frame = self.protocol.build_message(msg_id, phone_number, body)
SendBuildMessage ==
    /\ pc = "order"
    /\ Len(issued) < MaxFrames
    /\ \E t \in Threads :
          /\ tpc[t] = "idle"
          /\ LockAvailable(sequence_lock)
          /\ tseq' = [tseq EXCEPT ![t] = msg_sequence]
          /\ msg_sequence' = NextMsgSequence(msg_sequence)
          /\ issued' = Append(issued, msg_sequence)
          /\ tpc' = [tpc EXCEPT ![t] = "sendall"]
    /\ UNCHANGED <<sessionVars, terminalVars, reasmVars, recvVars, alarmVars, bcdVars, codecVars,
                   sequence, seq_num, builder_sequence, sequence_lock, ttmp, wire, sender>>

\* send_message: self.socket.sendall(frame)
SendSocketSendall ==
    /\ pc = "order"
    /\ \E t \in Threads :
          /\ tpc[t] = "sendall"
          /\ wire' = Append(wire, Issue(t, tseq[t], TRUE))
          /\ tpc' = [tpc EXCEPT ![t] = "idle"]
    /\ UNCHANGED <<sessionVars, terminalVars, reasmVars, recvVars, alarmVars, bcdVars, codecVars,
                   counterVars, sequence_lock, tseq, ttmp, issued, sender>>

InitOrder ==
    /\ pc = "order"
    /\ msg_sequence \in {0, 7}
    /\ sequence = 0
    /\ seq_num = 0
    /\ builder_sequence = 1
    /\ sent = None
    /\ frame = <<>>
    /\ received = None
    /\ stuffer = None
    /\ sequence_lock = "free"
    /\ tpc = [t \in Threads |-> "idle"]
    /\ tseq = [t \in Threads |-> 0]
    /\ ttmp = [t \in Threads |-> 0]
    /\ issued = <<>>
    /\ wire = <<>>
    /\ sender = None
    /\ bcd = None
    /\ alarm_extra = None
    /\ alarm_id_counter = 1
    /\ msg_seq = 0
    /\ attach = None
    /\ rstream = <<>>
    /\ rbuffer = <<>>
    /\ delivered = <<>>
    /\ receiver = None
    /\ assembly = <<>>
    /\ emitted = <<>>
    /\ arrivals = <<>>
    /\ reassembly_error = None
    /\ msg_serial = 0
    /\ client = None
    /\ running = FALSE
    /\ connected = FALSE
    /\ authenticated = FALSE
    /\ auth_code = <<>>
    /\ outbox = {}
    /\ threads = <<>>
    /\ run_pc = "none"
    /\ returned = None
    /\ socket = "none"
    /\ config = None

NextOrder ==
    \/ SendBuildMessage
    \/ SendSocketSendall

SpecOrder == InitOrder /\ [][NextOrder]_vars

(***************************************************************************)
(* Properties of the codec session.                                        *)
(***************************************************************************)
Range(f) == {f[k] : k \in DOMAIN f}

\* The encoders that escape the checksum together with header and body.
EscapedChecksumEncoders == {"JT808Protocol.build_message"}
RawChecksumEncoders == {"DC600Message.encode_message", "JT808Message.build_message"}
UnescapedEncoders == {"JT808PacketBuilder.build_location_packet"}
Encoders == EscapedChecksumEncoders \cup RawChecksumEncoders \cup UnescapedEncoders

\* The unescaped header + body a frame of the given encoder carries.
PayloadOf(encoder, f) ==
    IF encoder \in EscapedChecksumEncoders
    THEN LET u == unescape_data(Slice(f, 1, Len(f) - 1)) IN Slice(u, 0, Len(u) - 1)
    ELSE IF encoder \in RawChecksumEncoders
    THEN unescape_data(Slice(f, 1, Len(f) - 2))
    ELSE Slice(f, 1, Len(f) - 2)

\* The properties field of a frame's header.
PropertiesOf(encoder, f) == UnpackH(Slice(PayloadOf(encoder, f), 2, 4))

RoundTripDone(encoder, decoder) ==
    /\ pc = "received"
    /\ sent.encoder = encoder
    /\ sent.tampered = "no"
    /\ received.decoder = decoder

\* C1: parse_message(build_message(msg_id, phone, body)) of JT808Protocol returns
\* msg_id, phone and body as given and the sequence number build_message consumed,
\* for every body of at most 1023 bytes, reserved byte values included.
C1_ParseBuildRoundTrip ==
    (RoundTripDone("JT808Protocol.build_message", "JT808Protocol.parse_message")
     /\ Len(sent.body) <= 1023)
    => /\ received.result.kind = "msg"
       /\ received.result.msg_id = sent.msg_id
       /\ received.result.phone = sent.phone
       /\ received.result.body = sent.body
       /\ received.result.sequence = sent.seq
       /\ msg_sequence = (sent.seq + 1) % 65536

\* A round trip whose body holds the delimiter, whose sequence number is 0x7D7E and
\* whose checksum is a reserved value.
C1_Witness ==
    /\ RoundTripDone("JT808Protocol.build_message", "JT808Protocol.parse_message")
    /\ FRAME_DELIMITER \in Range(sent.body)
    /\ sent.seq = 32126
    /\ calculate_checksum(PayloadOf(sent.encoder, frame)) \in {ESCAPE_CHAR, FRAME_DELIMITER}
    /\ received.result.kind = "msg"
    /\ received.result.body = sent.body

\* A round trip of a body of exactly 1023 bytes.
C1_WitnessLongest ==
    /\ RoundTripDone("JT808Protocol.build_message", "JT808Protocol.parse_message")
    /\ Len(sent.body) = 1023
    /\ received.result.kind = "msg"
    /\ received.result.body = sent.body

\* The byte stuffing of the wire format: 0x7E -> 0x7D 0x02, 0x7D -> 0x7D 0x01.
RECURSIVE Stuffed(_)
Stuffed(x) ==
    IF x = <<>> THEN <<>>
    ELSE (IF Head(x) = 126 THEN <<125, 2>> ELSE IF Head(x) = 125 THEN <<125, 1>>
          ELSE <<Head(x)>>) \o Stuffed(Tail(x))

\* C2: for every byte sequence x without 0x7E, unescape(escape(x)) = x, and escape
\* maps 0x7E to 0x7D 0x02 and 0x7D to 0x7D 0x01.
C2_UnescapeEscape ==
    pc = "stuffed"
    => /\ stuffer.escaped = Stuffed(stuffer.x)
       /\ FRAME_DELIMITER \notin Range(stuffer.x) => stuffer.unescaped = stuffer.x

\* A round trip of a sequence in which 0x7D is followed by a continuation code.
C2_Witness ==
    /\ pc = "stuffed"
    /\ stuffer.family = "JT808Protocol"
    /\ Len(stuffer.x) = 3
    /\ stuffer.x[1] = ESCAPE_CHAR
    /\ stuffer.x[2] = 1
    /\ stuffer.x[3] = ESCAPE_CHAR
    /\ stuffer.unescaped = stuffer.x

\* C3: every frame produced by DC600Message.encode_message, JT808Message.build_message
\* or JT808PacketBuilder.build_location_packet holds 0x7E only as first and last byte.
C3_DelimiterOnlyAtEnds ==
    (pc = "sent" /\ sent.tampered = "no"
     /\ sent.encoder \in RawChecksumEncoders \cup UnescapedEncoders)
    => \A k \in 2..(Len(frame) - 1) : frame[k] # FRAME_DELIMITER

\* Whether the trailing checksum byte of a delimited frame differs from the XOR of
\* its unescaped header + body, as the given decoder splits the frame.
ChecksumDiffers(decoder, f) ==
    IF decoder \in {"JT808Protocol.parse_message", "Sim.parse_message"}
    THEN LET u == unescape_data(Slice(f, 1, Len(f) - 1))
         IN  Len(u) >= 1 /\ u[Len(u)] # calculate_checksum(Slice(u, 0, Len(u) - 1))
    ELSE Len(f) >= 3
         /\ f[Len(f) - 1] # calculate_checksum(unescape_data(Slice(f, 1, Len(f) - 2)))

Delimited(f) == Len(f) >= 2 /\ f[1] = FRAME_DELIMITER /\ f[Len(f)] = FRAME_DELIMITER

\* C4: a delimited frame whose trailing checksum byte differs from the XOR of its
\* unescaped header + body is never decoded to a message, and no exception is raised:
\* the decoder returns None.
C4_ChecksumMismatchDropped ==
    (pc = "received" /\ Delimited(frame) /\ ChecksumDiffers(received.decoder, frame))
    => received.result.kind = "None"

\* C5: every frame a sender hands to the transport has a body of at most 1023 bytes,
\* and the low 10 bits of its properties field equal the body's length.
C5_BodyFitsLengthField ==
    (pc = "sent" /\ sent.origin = "sender" /\ sent.encoder \in Encoders
     /\ sent.tampered = "no")
    => /\ Len(sent.body) <= 1023
       /\ BitAnd(PropertiesOf(sent.encoder, frame), 1023) = Len(sent.body)

\* C8: a decoder never returns a message whose body is shorter than the length its
\* properties field declares: it fails instead.
C8_TruncatedBodyRejected ==
    (pc = "received"
     /\ received.decoder \in {"JT808Protocol.parse_message", "Sim.parse_message",
                              "JT808Message.parse_message"}
     /\ received.result.kind = "msg"
     /\ sent.tampered \in {"no", "short"})
    => Len(received.result.body)
          >= BitAnd(UnpackH(Slice(unescape_data(Slice(frame, 1, Len(frame) - 1)), 2, 4)), 1023)

\* C9: in every frame an encoder produces, bit 13 of the properties field is set if
\* and only if total_packages and package_no (4 bytes) follow the 12-byte header.
C9_SubPackageFlagIffFields ==
    (pc = "sent" /\ sent.tampered = "no"
     /\ sent.encoder \in {"JT808Protocol.build_message", "DC600Message.encode_message"})
    => LET payload == PayloadOf(sent.encoder, frame)
           flag == (PropertiesOf(sent.encoder, frame) \div 8192) % 2 = 1
       IN  /\ flag <=> Len(payload) = 16 + Len(sent.body)
           /\ ~flag <=> Len(payload) = 12 + Len(sent.body)
           /\ flag => Slice(payload, 12, 16)
                        = PackH(sent.total_packages) \o PackH(sent.package_no)

\* C10: decode_response returns the body that encode_message was given, with and
\* without the sub-package flag (the sub-package fields are not part of the body).
C10_SubPackageBodyRoundTrip ==
    (RoundTripDone("DC600Message.encode_message", "DC600Message.decode_response")
     /\ Len(sent.body) <= 1023)
    => /\ received.result.kind = "msg"
       /\ received.result.body = sent.body

(***************************************************************************)
(* Properties of the sequence counters.                                    *)
(***************************************************************************)
\* C6: the sequence numbers of one sender's consecutive frames increase by exactly 1
\* modulo 65536 (after 65535 comes 0), and no frame fails to build because of the
\* counter's value.
C6_SequenceIncrementsMod65536 ==
    pc = "seq"
    => /\ \A k \in 1..(Len(issued) - 1) : issued[k + 1] = (issued[k] + 1) % 65536
       /\ \A k \in 1..Len(wire) : wire[k].built

\* C7: get_next_sequence of the device simulator's JT808Protocol, called from the
\* heartbeat, location, alarm and receive threads, never returns one number twice and
\* never loses an increment: the numbers returned are consecutive modulo 65536 and the
\* counter has advanced once per completed call.
C7_GetNextSequenceThreadSafe ==
    (pc = "seq" /\ sender.kind = "JT808Protocol")
    => /\ \A j, k \in 1..Len(issued) : j # k => issued[j] # issued[k]
       /\ \A k \in 1..Len(issued) :
             issued[k] = (sender.frames_before + k - 1) % 65536
       /\ (\A t \in Threads : tpc[t] = "idle")
             => msg_sequence = (sender.frames_before + Len(issued)) % 65536

\* Three different threads have each taken a sequence number across the roll-over.
C7_Witness ==
    /\ pc = "seq"
    /\ sender.kind = "JT808Protocol"
    /\ Len(wire) = 3
    /\ Cardinality({wire[k].thread : k \in 1..Len(wire)}) = 3
    /\ issued = <<65534, 65535, 0>>
    /\ msg_sequence = 1

(***************************************************************************)
(* Properties of the checksum.                                             *)
(***************************************************************************)
\* The XOR of all bytes of b, bit by bit: bit k of the result is the parity of the
\* number of bytes of b that have bit k set.
XorOfBytes(b) ==
    LET Pow2(k) == IF k = 0 THEN 1 ELSE IF k = 1 THEN 2 ELSE IF k = 2 THEN 4
                   ELSE IF k = 3 THEN 8 ELSE IF k = 4 THEN 16 ELSE IF k = 5 THEN 32
                   ELSE IF k = 6 THEN 64 ELSE 128
        Parity(k) == Cardinality({i \in DOMAIN b : (b[i] \div Pow2(k)) % 2 = 1}) % 2
    IN  Parity(0) + 2 * Parity(1) + 4 * Parity(2) + 8 * Parity(3) + 16 * Parity(4)
        + 32 * Parity(5) + 64 * Parity(6) + 128 * Parity(7)

\* The checksum byte a frame of the given encoder carries.
ChecksumOf(encoder, f) ==
    IF encoder \in EscapedChecksumEncoders
    THEN LET u == unescape_data(Slice(f, 1, Len(f) - 1)) IN u[Len(u)]
    ELSE f[Len(f) - 1]

\* C11: calculate_checksum(b) is the XOR of all bytes of b (0 for the empty sequence),
\* and every frame an encoder builds carries the checksum of its unescaped header+body,
\* so the XOR of the unescaped header+body+checksum is 0.
C11_ChecksumIsXorOfPayload ==
    (pc = "sent" /\ sent.tampered = "no" /\ sent.encoder \in Encoders)
    => LET payload == PayloadOf(sent.encoder, frame)
           checksum == ChecksumOf(sent.encoder, frame)
       IN  /\ calculate_checksum(<<>>) = 0
           /\ calculate_checksum(payload) = XorOfBytes(payload)
           /\ Len(payload) >= 12 + Len(sent.body)
           /\ Slice(payload, Len(payload) - Len(sent.body), Len(payload)) = sent.body
           /\ checksum = XorOfBytes(payload)
           /\ XorOfBytes(Append(payload, checksum)) = 0

\* A frame of JT808Protocol.build_message whose body holds 0x7D (so the escaped bytes
\* differ from the bytes the checksum covers) and whose checksum is not 0.
C11_Witness ==
    /\ pc = "sent"
    /\ sent.tampered = "no"
    /\ sent.encoder = "JT808Protocol.build_message"
    /\ ESCAPE_CHAR \in Range(sent.body)
    /\ Len(frame) > 15 + Len(sent.body)
    /\ ChecksumOf(sent.encoder, frame) = XorOfBytes(PayloadOf(sent.encoder, frame))
    /\ ChecksumOf(sent.encoder, frame) # 0

(***************************************************************************)
(* Properties of the BCD functions.                                        *)
(***************************************************************************)
\* Digit pairs packed one per byte: first digit in the high nibble, second in the low.
PackedPairs(d) == [k \in 1..(Len(d) \div 2) |-> d[2 * k - 1] * 16 + d[2 * k]]

\* C12: for every string d of exactly 12 decimal digits, decode_bcd(encode_bcd(d)) = d,
\* and encode_bcd yields exactly 6 bytes, the first digit of each pair in the high
\* nibble and the second in the low nibble.
C12_BcdRoundTrip ==
    (pc = "bcd" /\ bcd.op \in {"JT808Protocol.encode_bcd", "Sim.encode_bcd"}
     /\ Len(bcd.number_str) = 12)
    => /\ Len(bcd.encoded) = 6
       /\ bcd.encoded = PackedPairs(bcd.number_str)
       /\ bcd.decoded = bcd.number_str

\* The round trip of a 12-digit string that starts with a zero and holds a pair 9, 9.
C12_Witness ==
    /\ pc = "bcd"
    /\ bcd.op = "JT808Protocol.encode_bcd"
    /\ Len(bcd.number_str) = 12
    /\ bcd.number_str[1] = 0
    /\ bcd.number_str[11] = 9
    /\ bcd.number_str[12] = 9
    /\ bcd.encoded[6] = 153
    /\ bcd.decoded = bcd.number_str

\* d left-padded with '0' characters to 12 digits.
LeftPadded(d) == [k \in 1..(12 - Len(d)) |-> 0] \o d

\* C13: for every digit string shorter than 12 digits, the 6-byte BCD device-id field
\* equals the BCD encoding of the string left-padded with zeros to 12 digits.
C13_ShortIdLeftPadded ==
    (pc = "bcd" /\ bcd.op \in {"JT808Protocol.encode_bcd", "Sim.encode_bcd", "bcd_encode_phone"}
     /\ Len(bcd.number_str) < 12)
    => bcd.encoded = PackedPairs(LeftPadded(bcd.number_str))

\* C14: decode_bcd returns, for every byte sequence of length n, a string of exactly
\* 2 * n characters, each a decimal digit.
C14_DecodeBcdTwoDigitsPerByte ==
    (pc = "bcd" /\ bcd.op = "decode_bcd")
    => /\ Len(bcd.decoded) = 2 * Len(bcd.bcd_bytes)
       /\ \A k \in 1..Len(bcd.decoded) : bcd.decoded[k] \in 0..9

(***************************************************************************)
(* Properties of unescape on arbitrary input.                              *)
(***************************************************************************)
\* The lenient unescaping: 0x7D 0x01 -> 0x7D, 0x7D 0x02 -> 0x7E, and a 0x7D followed
\* by anything else (or by nothing) stays, the byte after it being read normally.
RECURSIVE Lenient(_)
Lenient(x) ==
    IF x = <<>> THEN <<>>
    ELSE IF Len(x) >= 2 /\ x[1] = 125 /\ x[2] = 1 THEN <<125>> \o Lenient(SubSeq(x, 3, Len(x)))
    ELSE IF Len(x) >= 2 /\ x[1] = 125 /\ x[2] = 2 THEN <<126>> \o Lenient(SubSeq(x, 3, Len(x)))
    ELSE <<x[1]>> \o Lenient(Tail(x))

\* The pairs 0x7D 0x01 and 0x7D 0x02 that unescaping x joins into one byte.
EscapePairs(x) == Len(x) - Len(Lenient(x))

\* C15: unescape is lenient: a 0x7D followed by a byte other than 0x01 or 0x02 (or by
\* nothing) is copied as a literal 0x7D and the following byte is processed normally,
\* so no input byte is dropped.
C15_UnescapeLenient ==
    pc = "unescaped"
    => /\ stuffer.unescaped = Lenient(stuffer.data)
       /\ Len(stuffer.unescaped) = Len(stuffer.data) - EscapePairs(stuffer.data)

(***************************************************************************)
(* Properties of the alarm scenario.                                       *)
(***************************************************************************)
ExtensionBuilt == alarm_extra # None /\ pc \in {"device-alarm", "sim-alarm"}
SimSenders == {"send_adas_alarm", "send_dsm_alarm"}

\* C16: every ADAS (tag 0x64) and DSM (tag 0x65) extension the alarm builders produce
\* has a payload of exactly 47 bytes, and its length byte is the payload's length, 47.
C16_ExtensionPayloadIs47Bytes ==
    ExtensionBuilt =>
        /\ alarm_extra.extension[1] \in {100, 101}
        /\ Len(alarm_extra.extension) - 2 = 47
        /\ alarm_extra.extension[2] = 47

\* C17: the alarm sign block of send_adas_alarm and send_dsm_alarm is the last field of
\* the payload and has exactly 16 bytes: 7 of terminal id padded with zero bytes, 6 of
\* BCD alarm time, then serial number, attachment count and a reserved zero byte.
C17_AlarmSignBlockIs16Bytes ==
    (ExtensionBuilt /\ alarm_extra.builder \in SimSenders) =>
        LET ext == alarm_extra.extension
            block == Slice(ext, Len(ext) - 16, Len(ext))
        IN  /\ Len(alarm_extra.sign) = 16
            /\ block = alarm_extra.sign
            /\ Slice(block, 0, 7) = Slice(alarm_extra.terminal_id \o Zeros(7), 0, 7)
            /\ decode_bcd(Slice(block, 7, 13)) = alarm_extra.timestamp
            /\ Slice(block, 13, 16) = <<0, 1, 0>>

(***************************************************************************)
(* Properties of the attachment scenario.                                  *)
(***************************************************************************)
\* The alarm flag of a 0x9208 body (Table 4-21): the 16 bytes after the IP and the ports.
AlarmFlagOf9208(body) == Slice(body, 1 + body[1] + 4, 1 + body[1] + 4 + 16)

\* The alarm flag of a 0x1210 body (Table 4-23): the 16 bytes after the 7-byte terminal id.
AlarmFlagOf1210(body) == Slice(body, 7, 23)

\* A complete 0x9208 request has been handled.
RequestHandled == pc = "attach" /\ Len(attach.body) >= 70

\* The general response for the request reports success (result 0).
AckedWithSuccess == attach.ack # <<>> /\ attach.ack[5] = 0

\* The file-info upload 0x1210 was sent for the request.
FileInfoSent == attach.file_info # <<>>

\* C18: a device that receives a 0x9208 whose alarm sign block is sixteen zero bytes
\* treats it as not actionable (no success acknowledgement, no 0x1210), and processes
\* a request whose block is populated.
C18_ZeroSignBlockNotActionable ==
    RequestHandled =>
        IF AlarmFlagOf9208(attach.body) = Zeros(16)
        THEN ~AckedWithSuccess /\ ~FileInfoSent
        ELSE AckedWithSuccess \/ FileInfoSent

\* C19: the alarm flag a device places in its 0x1210 is, byte for byte, the alarm sign
\* block of the 0x9208 request it answers.
C19_AlarmFlagEchoed ==
    (RequestHandled /\ FileInfoSent) =>
        AlarmFlagOf1210(attach.file_info) = AlarmFlagOf9208(attach.body)

(***************************************************************************)
(* Properties of the decoders on arbitrary bytes.                          *)
(***************************************************************************)
\* C20: for every byte string given as the frame, delimited frames with a short content
\* included, JT808Protocol.parse_message returns a message or None and raises nothing.
C20_ParseMessageNeverRaises ==
    (pc = "parsed"
     /\ received.decoder \in {"JT808Protocol.parse_message", "Sim.parse_message"})
    => received.result.kind \in {"msg", "None"}

(***************************************************************************)
(* Properties of the receive scenario.                                     *)
(***************************************************************************)
IsPrefix(a, b) == Len(a) <= Len(b) /\ a = SubSeq(b, 1, Len(a))

\* Every byte of the stream has been received and no call is in progress.
StreamConsumed == pc = "recv" /\ rstream = <<>>

ScanLoops == {"DC600Device.receive_messages", "DC600Simulator._receive_loop"}

\* C21: when the stream is made of complete well-formed frames, the receive loop hands
\* them to the handler one at a time, in stream order and each exactly once, whatever
\* the chunks: what was delivered is always a prefix of the frames, and all of them
\* once the stream is consumed.
C21_FramesDeliveredInOrder ==
    (pc = "recv" /\ receiver.loop \in ScanLoops /\ receiver.scenario = "frames")
    => /\ IsPrefix(delivered, receiver.expected)
       /\ rstream = <<>> => delivered = receiver.expected

\* A scanning loop has consumed a stream of several well-formed frames and delivered
\* more than one of them.
C21_Witness ==
    /\ StreamConsumed
    /\ receiver.loop \in ScanLoops
    /\ receiver.scenario = "frames"
    /\ Len(delivered) >= 2
    /\ delivered = receiver.expected

(***************************************************************************)
(* Properties of the sub-package scenario.                                 *)
(***************************************************************************)
\* The positions in arrivals of the accepted fragments of multimedia id m with
\* package number k.
AcceptedAt(m, k) ==
    {i \in 1..Len(arrivals) : /\ arrivals[i].accepted
                              /\ arrivals[i].fragment.multimedia_id = m
                              /\ arrivals[i].fragment.package_no = k}

\* The data of the last accepted fragment of id m with package number k.
LastData(m, k) ==
    LET i == CHOOSE x \in AcceptedAt(m, k) : \A y \in AcceptedAt(m, k) : x >= y
    IN  arrivals[i].fragment.data

RECURSIVE InOrder(_, _, _)
InOrder(m, k, total) == IF k > total THEN <<>> ELSE LastData(m, k) \o InOrder(m, k + 1, total)

\* C22: once every fragment 1..total_packages of a multimedia id has been received,
\* the payload assembled for it is the concatenation of the fragments by ascending
\* package number, whatever the order they arrived in, a repeated fragment counting
\* with its last arrival.
C22_ReassemblyOrderIndependent ==
    pc = "reassembly" =>
        \A m \in MultimediaIds :
            assembly[m].state = "Complete"
            => /\ \A k \in 1..assembly[m].total_packages : AcceptedAt(m, k) # {}
               /\ emitted[m] = InOrder(m, 1, assembly[m].total_packages)

\* The three fragments of id 1 arrived out of order, one of them twice with different
\* data, and the payload was emitted.
C22_Witness ==
    /\ pc = "reassembly"
    /\ assembly[1].state = "Complete"
    /\ assembly[1].total_packages = 3
    /\ Cardinality(AcceptedAt(1, 1)) = 2
    /\ arrivals[1].fragment.package_no = 3
    /\ arrivals[2].fragment.data # arrivals[Len(arrivals)].fragment.data
    /\ arrivals[2].fragment.package_no = 1
    /\ emitted[1] = <<1, 1, 2, 1, 2, 1, 1, 3, 1>>

\* The fragment that arrives in this step declares a total_packages that differs from
\* the one recorded for its multimedia id.
MismatchArrives ==
    /\ pc = "reassembly"
    /\ Len(arrivals') = Len(arrivals) + 1
    /\ LET fragment == arrivals'[Len(arrivals')].fragment
       IN  /\ assembly[fragment.multimedia_id].state = "Collecting"
           /\ fragment.total_packages # assembly[fragment.multimedia_id].total_packages

\* C23: a fragment whose total_packages differs from the value recorded with the first
\* fragment of its multimedia id is rejected with InconsistentSubPackageCount, and the
\* fragments collected for that id and the state of every other id stay as they were.
C23_InconsistentTotalRejected ==
    [][MismatchArrives
       => /\ reassembly_error'.kind = "InconsistentSubPackageCount"
          /\ ~arrivals'[Len(arrivals')].accepted
          /\ assembly' = assembly
          /\ emitted' = emitted]_vars

\* A fragment of id 1 was just rejected while fragments of both ids were collected.
C23_Witness ==
    /\ pc = "reassembly"
    /\ reassembly_error.kind = "InconsistentSubPackageCount"
    /\ ~arrivals[Len(arrivals)].accepted
    /\ arrivals[Len(arrivals)].fragment.multimedia_id = 1
    /\ assembly[1].state = "Collecting"
    /\ DOMAIN assembly[1].fragments = {1, 3}
    /\ assembly[2].state = "Collecting"

(***************************************************************************)
(* Properties of the location reports.                                     *)
(***************************************************************************)
\* decode_extension_list: the walk over back-to-back tag, length, payload entries from
\* offset i (0-based) on; ok is FALSE when an entry would read past the end.
RECURSIVE decode_extension_list(_, _, _)
decode_extension_list(bytes, i, entries) ==
    IF i >= Len(bytes) THEN [ok |-> TRUE, entries |-> entries]
    ELSE IF i + 2 > Len(bytes) \/ i + 2 + bytes[i + 2] > Len(bytes)
    THEN [ok |-> FALSE, entries |-> entries]
    ELSE decode_extension_list(bytes, i + 2 + bytes[i + 2],
                               Append(entries, [tag |-> bytes[i + 1],
                                                payload |-> Slice(bytes, i + 2, i + 2 + bytes[i + 2])]))

ReportBuilt == alarm_extra # None /\ pc \in {"device-report", "sim-alarm"}

\* The alarm-type byte and the tag that the sender of the report was asked for.
RequestedType ==
    CASE alarm_extra.builder = "DC600Device.send_adas_alarm" -> <<100, ADAS_WARNTYPE_MAP(alarm_extra.alarm_type)>>
      [] alarm_extra.builder = "DC600Device.send_dsm_alarm" -> <<101, DSM_WARNTYPE_MAP(alarm_extra.alarm_type)>>
      [] alarm_extra.builder = "send_adas_alarm" -> <<100, alarm_extra.alarm_type>>
      [] alarm_extra.builder = "send_dsm_alarm" -> <<101, alarm_extra.alarm_type>>
      [] OTHER -> <<>>

AlarmEntries(entries) == {k \in 1..Len(entries) : entries[k].tag \in {100, 101}}

C25_DeviceIdFieldIsSixBytes ==
    pc = "bcd-id" =>
        /\ ~bcd.raised
        /\ Len(bcd.encoded) = 6
        /\ 2 + 2 + Len(bcd.encoded) + 2 = 12

(***************************************************************************)
(* Properties of the two checksum placements.                              *)
(***************************************************************************)
\* C26: every frame DC600Protocol.encode_message builds (checksum escaped with header
\* and body) is accepted by JT808Message.parse_message (checksum read raw) and decoded
\* to the message id, the sequence number and the body it was built from.
C26_EscapedChecksumFramesAccepted ==
    pc = "interop" =>
        /\ received.result.kind = "msg"
        /\ received.result.msg_id = received.msg_id
        /\ received.result.sequence = msg_serial
        /\ received.result.body = received.body

\* A frame whose checksum is 0x7E, escaped by the encoder, was given to the decoder.
C26_ReservedChecksumFrame ==
    /\ pc = "interop"
    /\ Len(frame) >= 3
    /\ frame[Len(frame) - 2] = ESCAPE_CHAR
    /\ frame[Len(frame) - 1] = 2
    /\ received.result.kind = "None"

(***************************************************************************)
(* Properties of the send scenario.                                        *)
(***************************************************************************)
\* C27: when the receive thread and the main thread of DC600Simulator call
\* send_message concurrently, every frame carries the counter value that its own
\* call's increment produced, and frames of the two threads carry different sequence
\* numbers.
C27_ConcurrentSendsDistinct ==
    pc = "send" =>
        /\ \A i \in 1..Len(wire) : wire[i].seq = wire[i].own
        /\ \A i, j \in 1..Len(wire) :
              wire[i].thread # wire[j].thread => wire[i].seq # wire[j].seq

\* C28: the test client loses no frame: when several complete frames arrive, in one
\* chunk or across chunks, successive calls of DC600Device.receive_message return each
\* of them once and in arrival order.
C28_TestClientLosesNoFrame ==
    (pc = "recv" /\ receiver.loop = "DC600Device.receive_message"
                 /\ receiver.scenario = "frames")
    => /\ IsPrefix(delivered, receiver.expected)
       /\ (rstream = <<>> /\ rbuffer = <<>>) => delivered = receiver.expected

\* C29: a message that is malformed for its handler, or that parse_message cannot
\* decode, is a failure of that message only: DC600Device.receive_messages keeps
\* running and hands every later well-formed frame to handle_server_message.
C29_MalformedMessageIsLocal ==
    (pc = "recv" /\ receiver.loop = "DC600Device.receive_messages"
                 /\ receiver.scenario = "malformed")
    => /\ receiver.running
       /\ IsPrefix(delivered, receiver.expected)
       /\ rstream = <<>> => delivered = receiver.expected

\* C30: the scanner resynchronises: after a fragment whose opening delimiter was lost,
\* the receive loop drops at most the fragment, and every complete well-formed frame
\* that follows has been delivered once the stream is consumed.
C30_ScannerResynchronises ==
    (pc = "recv" /\ receiver.scenario = "fragment"
                 /\ receiver.loop \in ScanLoops \cup {"DC600Terminal.receive_message"})
    => /\ IsPrefix(delivered, receiver.expected)
       /\ rstream = <<>> => delivered = receiver.expected

\* The clients whose authenticate() waits for the platform's answer.
WaitingClients == {"test_dc600_protocol", "dc600multimedia", "dc600_terminal_test"}

\* The platform general response reports success: result code 0 in the fifth
\* body byte, after the response serial and the response message id.
ReportsSuccess(response) ==
    /\ response # None
    /\ response.msg_id = PLATFORM_GENERAL_RESPONSE
    /\ Len(response.body) >= 5
    /\ response.body[5] = 0

\* C31: authenticate() reports success exactly when the 0x8001 response carries
\* result code 0 in its fifth body byte; on success the client is authenticated.
C31_AuthenticateReadsResultCode ==
    (pc = "auth-done" /\ client \in WaitingClients /\ auth_code # <<>>)
    => /\ (returned.value = "True") = ReportsSuccess(returned.response)
       /\ ReportsSuccess(returned.response) => authenticated

\* The response answers the authentication message 0x0102.
AnswersAuthentication(response) ==
    /\ response # None
    /\ Len(response.body) >= 4
    /\ UnpackH(Slice(response.body, 2, 4)) = TERMINAL_AUTHENTICATION

\* C33: in dc600_simulator and dc600multimedia, authenticated is true only if
\* the platform answered the 0x0102 message with success; sending the message,
\* or getting no response, leaves it false.
C33_AuthenticatedOnlyOnSuccess ==
    (pc = "auth-done" /\ client \in {"dc600_simulator", "dc600multimedia"} /\ authenticated)
    => /\ ReportsSuccess(returned.response)
       /\ AnswersAuthentication(returned.response)

\* The platform accepted the registration and handed out an auth code.
RegistrationAccepted(m) ==
    /\ m.msg_id = PLATFORM_TERMINAL_REGISTRATION_RESPONSE
    /\ Len(m.body) > 3
    /\ m.body[3] = 0

\* The platform answered the authentication message with success.
AuthenticationAccepted(m) ==
    /\ m.msg_id = PLATFORM_GENERAL_RESPONSE
    /\ AnswersAuthentication(m)
    /\ ReportsSuccess(m)

PeriodicKinds == {"heartbeat", "location", "alarm"}

\* C32: in the device simulator the authentication message is sent only after
\* a registration response with result 0 and an auth code was handled,
\* authenticated is true only once a 0x8001 answer to 0x0102 with result 0 was
\* handled, and no heartbeat, location report or alarm is sent while
\* authenticated is false.
C32_SessionOrdering ==
    pc = "device"
    => /\ \A e \in outbox :
            e.kind = "authenticate"
            => \E j \in 1..e.handled : RegistrationAccepted(delivered[j])
       /\ authenticated => \E j \in 1..Len(delivered) : AuthenticationAccepted(delivered[j])
       /\ \A e \in outbox : e.kind \in PeriodicKinds => e.authenticated

\* The whole session happened: registration, authentication, and a message of
\* every periodic thread.
C32_Witness ==
    /\ pc = "device"
    /\ authenticated
    /\ {e.kind : e \in outbox} = {"register", "authenticate"} \cup PeriodicKinds

\* C34: at any time at most one heartbeat thread, one location thread and one
\* alarm thread of a device are alive, whatever messages the platform sends.
C34_OnePeriodicThreadOfEachKind ==
    pc = "device" => \A k \in PeriodicKinds : threads[k] <= 1

\* The scheduling the session relies on: every thread that can take a step
\* takes one eventually (sleeps and socket timeouts are finite), and so does
\* run once it has reached its finally clause.  Nothing obliges the platform
\* to answer, the server to close, or the user to interrupt.
FairnessDevice ==
    /\ WF_vars(RunFinally)
    /\ WF_vars(ReceiveExit)
    /\ WF_vars(HeartbeatIterate)
    /\ WF_vars(LocationIterate)
    /\ WF_vars(AlarmIterate)

FairSpecDevice == SpecDevice /\ FairnessDevice

RunEnded == run_pc = "done"
NoThreadLeft == threads = NoThreads

\* C38: run always ends in disconnect(): when it has ended, running and
\* connected are false and the socket, if one was created, is closed; after a
\* failed connect no thread was started; and once run has ended the
\* heartbeat, location, alarm and receive loops eventually terminate.
C38_RunEndsDisconnected ==
    /\ [](RunEnded => ~running /\ ~connected /\ socket \in {"none", "closed"})
    /\ [](run_pc = "finally" /\ socket = "unconnected" => NoThreadLeft)
    /\ (RunEnded ~> NoThreadLeft)

\* run has ended while threads of every kind were still alive.
C38_Witness ==
    /\ RunEnded
    /\ \A k \in DOMAIN threads : threads[k] > 0

\* The messages whose body starts with the response serial field.
SerialResponses == {TERMINAL_GENERAL_RESPONSE, CAMERA_TAKEN_RESPONSE, CHECK_PARAMETER_RESPONSE}

\* C35: every response carries the request's sequence number in its response
\* serial field, and a general response also carries the request's message id.
C35_ResponseEchoesRequestSerial ==
    (pc = "responded" /\ returned.response \notin {None, IndexError}
        /\ returned.response.msg_id \in SerialResponses)
    => /\ UnpackH(Slice(returned.response.body, 0, 2)) = returned.request.serial
       /\ returned.response.msg_id = TERMINAL_GENERAL_RESPONSE
          => UnpackH(Slice(returned.response.body, 2, 4)) = returned.request.msg_id

\* The header and body of an emitted frame, after unescaping.
FrameFields(bytes) ==
    LET unescaped == unescape_data(Slice(bytes, 1, Len(bytes) - 2))
        sub == BitAnd(UnpackH(Slice(unescaped, 2, 4)), SUBPACKAGE_FLAG) # 0
        start == IF sub THEN 16 ELSE 12
    IN  [msg_id |-> UnpackH(Slice(unescaped, 0, 2)),
         sequence |-> UnpackH(Slice(unescaped, 10, 12)),
         subpackage |-> sub,
         total_packages |-> IF sub THEN UnpackH(Slice(unescaped, 12, 14)) ELSE 1,
         package_no |-> IF sub THEN UnpackH(Slice(unescaped, 14, 16)) ELSE 1,
         body |-> Slice(unescaped, start, Len(unescaped))]

\* The 0x0801 frames on the wire, in the order they were sent.
VideoFrames ==
    LET fields == [k \in 1..Len(wire) |-> FrameFields(wire[k])]
    IN  SelectSeq(fields, LAMBDA f : f.msg_id = MULTIMEDIA_DATA_UPLOAD)

RECURSIVE VideoPacketData(_, _)
VideoPacketData(frames, k) ==
    IF k = 0 THEN <<>>
    ELSE VideoPacketData(frames, k - 1) \o Slice(frames[k].body, 36, Len(frames[k].body))

\* C36: send_video_multipacket with total_packets = N emits exactly N
\* sub-package frames with package_no 1..N in order, each with
\* total_packages = N and consecutive sequence numbers, waits for a response
\* only after frame N, and the packet data concatenated is the video data.
C36_VideoSubPackagesInOrder ==
    pc = "video-done"
    => LET frames == VideoFrames
           n == returned.total_packets
       IN  /\ Len(frames) = n
           /\ \A k \in 1..Len(frames) :
                 /\ frames[k].subpackage
                 /\ frames[k].package_no = k
                 /\ frames[k].total_packages = n
                 /\ k > 1 => frames[k].sequence = (frames[k - 1].sequence + 1) % 65536
           /\ returned.waited_after >= n
           /\ VideoPacketData(frames, Len(frames)) = video_data(n)

\* C37: the frames of one DC600Device reach the socket in the order of their
\* sequence numbers, also when different threads send them.
C37_FramesLeaveInSequenceOrder ==
    pc = "order"
    => \A i, j \in 1..Len(wire) : i < j => wire[i].seq < wire[j].seq

\* C39: every ADAS or DSM alarm extension a device simulator emits ends with a
\* populated 16-byte alarm sign block: its last sixteen bytes are never all zero.
C39_AlarmSignBlockPopulated ==
    ExtensionBuilt =>
        LET ext == alarm_extra.extension
        IN  /\ Len(ext) >= 16
            /\ Slice(ext, Len(ext) - 16, Len(ext)) # Zeros(16)

====
